---------------------------- MODULE Spec2Model ----------------------------
(***************************************************************************)
(* A model of the dnsdle server core: the DNS wire codec (dnswire.py), the *)
(* CNAME payload codec (cname_payload.py), the token mapping               *)
(* (mapping.py), the request handler and the receive loop (server.py).     *)
(*                                                                         *)
(* Bytes are the integers 0..255, byte strings and ASCII texts are         *)
(* sequences of bytes, a DNS name is a sequence of labels.  Offsets into   *)
(* a message are 0-based as in the source; message[offset] of the source   *)
(* is message[offset + 1] here.                                            *)
(***************************************************************************)
EXTENDS Integers, Sequences, FiniteSets, TLC

(***************************************************************************)
(* constants.py                                                            *)
(***************************************************************************)
DNS_HEADER_BYTES == 12
DNS_QTYPE_A == 1
DNS_QTYPE_CNAME == 5
DNS_QTYPE_OPT == 41
DNS_QCLASS_IN == 1
DNS_RCODE_NOERROR == 0
DNS_RCODE_SERVFAIL == 2
DNS_RCODE_NXDOMAIN == 3
DNS_FLAG_QR == 32768
DNS_OPCODE_MASK == 30720
DNS_FLAG_AA == 1024
DNS_FLAG_RD == 256
DNS_OPCODE_QUERY == 0
DNS_POINTER_TAG == 192
DNS_POINTER_MASK == 49152
DNS_POINTER_VALUE_MASK == 16383
MAX_DNS_NAME_WIRE_LENGTH == 255
DIGEST_TEXT_CAPACITY == 52
PAYLOAD_PROFILE_V1_BYTE == 1
PAYLOAD_FLAGS_V1_BYTE == 0
PAYLOAD_MAC_TRUNC_LEN == 8
SYNTHETIC_A_RDATA == <<0, 0, 0, 0>>
PAYLOAD_ENC_KEY_LABEL ==
    <<100, 110, 115, 100, 108, 101, 45, 101, 110, 99, 45, 118, 49, 124>>
PAYLOAD_ENC_STREAM_LABEL ==
    <<100, 110, 115, 100, 108, 101, 45, 101, 110, 99, 45, 115, 116, 114,
      101, 97, 109, 45, 118, 49, 124>>
PAYLOAD_MAC_KEY_LABEL ==
    <<100, 110, 115, 100, 108, 101, 45, 109, 97, 99, 45, 118, 49, 124>>
PAYLOAD_MAC_MESSAGE_LABEL ==
    <<100, 110, 115, 100, 108, 101, 45, 109, 97, 99, 45, 109, 115, 103,
      45, 118, 49, 124>>

(***************************************************************************)
(* Integer and byte helpers (struct.pack / bit masks of the source)        *)
(***************************************************************************)
Pow2(n) == 2 ^ n

\* bit `k` (0 = least significant) of the non-negative integer v
BitOf(v, k) == (v \div Pow2(k)) % 2

\* v & mask for a mask that is one bit, 2^k
HasBit(v, k) == BitOf(v, k) = 1

PackU8(v) == <<v % 256>>
PackU16(v) == <<(v \div 256) % 256, v % 256>>
PackU32(v) ==
    <<(v \div 16777216) % 256, (v \div 65536) % 256, (v \div 256) % 256, v % 256>>
UnpackU16(message, offset) == message[offset + 1] * 256 + message[offset + 2]

Min(a, b) == IF a <= b THEN a ELSE b

\* str(int) as ASCII digits, for a non-negative integer
RECURSIVE AsciiDigits(_)
AsciiDigits(n) ==
    IF n < 10 THEN <<48 + n>> ELSE AsciiDigits(n \div 10) \o <<48 + (n % 10)>>

\* str.lower() on ASCII bytes
LowerByte(b) == IF b >= 65 /\ b <= 90 THEN b + 32 ELSE b
\* variant: the label kept as received
Lower_AsReceived(raw) == raw

Lower(raw) == [i \in 1..Len(raw) |-> LowerByte(raw[i])]

(***************************************************************************)
(* dnswire.py: names                                                       *)
(***************************************************************************)
\* _to_label_bytes raises ValueError on an empty or over-long label
LabelEncodable(label) == Len(label) > 0 /\ Len(label) <= 63

NameEncodable(labels) == \A i \in 1..Len(labels) : LabelEncodable(labels[i])

RECURSIVE encode_name(_)
encode_name(labels) ==
    IF labels = <<>> THEN <<0>>
    ELSE PackU8(Len(Head(labels))) \o Head(labels) \o encode_name(Tail(labels))

DnsParseError == [ok |-> FALSE]

RECURSIVE DecodeNameLoop(_, _, _, _, _, _)
DecodeNameLoop(message, offset, labels, jumped, read_end_offset, visited_offsets) ==
    LET message_len == Len(message) IN
    IF offset >= message_len THEN DnsParseError
    ELSE
      LET first == message[offset + 1] IN
      IF first >= DNS_POINTER_TAG THEN
        IF offset + 1 >= message_len THEN DnsParseError
        ELSE
          LET pointer == (first % 64) * 256 + message[offset + 2] IN
          IF pointer >= message_len THEN DnsParseError
          ELSE IF pointer \in visited_offsets THEN DnsParseError
          ELSE DecodeNameLoop(message, pointer, labels, TRUE,
                              IF jumped THEN read_end_offset ELSE offset + 2,
                              visited_offsets \cup {pointer})
      ELSE IF first >= 64 THEN DnsParseError
      ELSE IF first = 0 THEN
        [ok |-> TRUE, labels |-> labels,
         next_offset |-> IF jumped THEN read_end_offset ELSE offset + 1]
      ELSE
        LET end_offset == offset + 1 + first IN
        IF end_offset > message_len THEN DnsParseError
        ELSE
          LET raw == SubSeq(message, offset + 2, end_offset) IN
          IF \E i \in 1..Len(raw) : raw[i] >= 128 THEN DnsParseError
          ELSE IF Len(labels) + 1 > 127 THEN DnsParseError
          ELSE DecodeNameLoop(message, end_offset, Append(labels, Lower(raw)),
                              jumped, read_end_offset, visited_offsets)

_decode_name(message, start_offset) ==
    DecodeNameLoop(message, start_offset, <<>>, FALSE, 0, {})

NoQuestion == [present |-> FALSE]

_decode_question(message, start_offset) ==
    LET name == _decode_name(message, start_offset) IN
    IF ~name.ok THEN DnsParseError
    ELSE IF name.next_offset + 4 > Len(message) THEN DnsParseError
    ELSE [ok |-> TRUE,
          question |-> [present |-> TRUE,
                        qname_labels |-> name.labels,
                        qtype |-> UnpackU16(message, name.next_offset),
                        qclass |-> UnpackU16(message, name.next_offset + 2)]]

parse_request(message) ==
    IF Len(message) < DNS_HEADER_BYTES THEN DnsParseError
    ELSE
      LET flags == UnpackU16(message, 2)
          qdcount == UnpackU16(message, 4)
          decoded == IF qdcount >= 1
                     THEN _decode_question(message, DNS_HEADER_BYTES)
                     ELSE [ok |-> TRUE, question |-> NoQuestion]
      IN IF ~decoded.ok THEN DnsParseError
         ELSE [ok |-> TRUE,
               id |-> UnpackU16(message, 0),
               flags |-> flags,
               opcode |-> ((flags \div 2048) % 16) * 2048,
               qdcount |-> qdcount,
               ancount |-> UnpackU16(message, 6),
               nscount |-> UnpackU16(message, 8),
               arcount |-> UnpackU16(message, 10),
               question |-> decoded.question]

(***************************************************************************)
(* dnswire.py: answers and responses                                       *)
(***************************************************************************)
Raise(message) == [ok |-> FALSE, message |-> message]
Return(value) == [ok |-> TRUE, value |-> value]

_pack_pointer(offset) ==
    IF offset < 0 \/ offset > DNS_POINTER_VALUE_MASK
    THEN Raise("pointer offset is out of range")
    ELSE Return(PackU16(DNS_POINTER_MASK + offset))

RECURSIVE LabelsWireSum(_)
LabelsWireSum(labels) ==
    IF labels = <<>> THEN 0 ELSE 1 + Len(Head(labels)) + LabelsWireSum(Tail(labels))

\* variant: only the length byte of each skipped label is counted
_qname_label_offset_NoLengthBytes(question_labels, label_index, qname_offset) ==
    IF label_index < 0 \/ label_index >= Len(question_labels)
    THEN Raise("label_index is out of range")
    ELSE Return(qname_offset + label_index)

_qname_label_offset(question_labels, label_index, qname_offset) ==
    IF label_index < 0 \/ label_index >= Len(question_labels)
    THEN Raise("label_index is out of range")
    ELSE Return(qname_offset + LabelsWireSum(SubSeq(question_labels, 1, label_index)))

encode_name_with_pointer(prefix_labels, pointer_offset) ==
    IF ~NameEncodable(prefix_labels) THEN Raise("label is not encodable")
    ELSE
      LET pointer == _pack_pointer(pointer_offset)
          name == encode_name(prefix_labels)
      IN IF ~pointer.ok THEN pointer
         ELSE Return(SubSeq(name, 1, Len(name) - 1) \o pointer.value)

\* struct.pack("!I", ttl) raises struct.error on a negative ttl (the upper
\* end of the u32 range is beyond the configured ttl values)
TtlPackable(ttl) == ttl >= 0

build_cname_answer(question_labels, domain_label_index, payload_labels, response_label, ttl) ==
    LET owner_name == _pack_pointer(DNS_HEADER_BYTES)
        domain_pointer == _qname_label_offset(question_labels, domain_label_index,
                                              DNS_HEADER_BYTES)
    IN IF ~domain_pointer.ok THEN domain_pointer
       ELSE
         LET rdata == encode_name_with_pointer(Append(payload_labels, response_label),
                                               domain_pointer.value)
         IN IF ~rdata.ok THEN rdata
            ELSE IF ~TtlPackable(ttl) \/ Len(rdata.value) > 65535
            THEN Raise("struct.error")
            ELSE Return(owner_name.value
                        \o PackU16(DNS_QTYPE_CNAME) \o PackU16(DNS_QCLASS_IN)
                        \o PackU32(ttl) \o PackU16(Len(rdata.value))
                        \o rdata.value)

build_a_answer(ttl) ==
    _pack_pointer(DNS_HEADER_BYTES).value
    \o PackU16(DNS_QTYPE_A) \o PackU16(DNS_QCLASS_IN)
    \o PackU32(ttl) \o PackU16(Len(SYNTHETIC_A_RDATA))
    \o SYNTHETIC_A_RDATA

_encode_opt_record(edns_size) ==
    <<0>> \o PackU16(DNS_QTYPE_OPT) \o PackU16(edns_size) \o PackU32(0) \o PackU16(0)

\* variant: the AA flag is left out
_response_flags_NoAA(request_flags, rcode) ==
    DNS_FLAG_QR
    + BitOf(request_flags, 8) * DNS_FLAG_RD
    + ((request_flags \div 2048) % 16) * 2048
    + (rcode % 16)

\* QR | AA | (flags & RD) | (flags & OPCODE_MASK) | (rcode & 0x000F)
_response_flags(request_flags, rcode) ==
    DNS_FLAG_QR
    + DNS_FLAG_AA
    + BitOf(request_flags, 8) * DNS_FLAG_RD
    + ((request_flags \div 2048) % 16) * 2048
    + (rcode % 16)

_encode_question(question) ==
    IF ~question.present THEN [bytes |-> <<>>, qdcount |-> 0]
    ELSE [bytes |-> encode_name(question.qname_labels)
                    \o PackU16(question.qtype) \o PackU16(question.qclass),
          qdcount |-> 1]

\* answer_bytes = <<>> stands for None (`if answer_bytes` is false for both)
build_response(request, rcode, answer_bytes, include_opt, edns_size) ==
    LET q == _encode_question(request.question)
        ancount == IF answer_bytes # <<>> THEN 1 ELSE 0
        arcount == IF include_opt THEN 1 ELSE 0
        flags == _response_flags(request.flags, rcode)
        header == PackU16(request.id) \o PackU16(flags) \o PackU16(q.qdcount)
                  \o PackU16(ancount) \o PackU16(0) \o PackU16(arcount)
    IN header \o q.bytes \o answer_bytes
       \o (IF include_opt THEN _encode_opt_record(edns_size) ELSE <<>>)

(***************************************************************************)
(* compat.py: base32.  hashlib/hmac are library code: hmac_sha256 is a     *)
(* deterministic 32-byte function of (key, message); the claims below use  *)
(* only that it is a function.                                             *)
(***************************************************************************)
Base32Char(v) == IF v < 26 THEN 97 + v ELSE 24 + v

Base32Value(c) == IF c >= 97 THEN c - 97 ELSE c - 24

\* byte i of raw (1-based), 0 past its end: the zero bits base32 pads with
ByteAt(raw, i) == IF i <= Len(raw) THEN raw[i] ELSE 0

\* the 5 bits of raw starting at bit offset `bit` (0 = most significant bit
\* of the first byte)
FiveBitsAt(raw, bit) ==
    ((ByteAt(raw, (bit \div 8) + 1) * 256 + ByteAt(raw, (bit \div 8) + 2))
        \div Pow2(11 - (bit % 8))) % 32

\* base64.b32encode(raw_bytes), lower-cased, "=" padding stripped
base32_lower_no_pad(raw_bytes) ==
    [k \in 1..((8 * Len(raw_bytes) + 4) \div 5) |->
        Base32Char(FiveBitsAt(raw_bytes, 5 * (k - 1)))]

IsBase32Char(c) == (c >= 97 /\ c <= 122) \/ (c >= 50 /\ c <= 55)

TextBit(text, j) == BitOf(Base32Value(text[(j \div 5) + 1]), 4 - (j % 5))

base32_decode_no_pad(text) ==
    IF text = <<>> THEN Raise("base32 text must be non-empty")
    ELSE IF \E i \in 1..Len(text) : ~IsBase32Char(text[i])
    THEN Raise("invalid base32 text")
    ELSE IF (Len(text) % 8) \in {1, 3, 6} THEN Raise("invalid base32 text")
    ELSE Return([n \in 1..((5 * Len(text)) \div 8) |->
                   128 * TextBit(text, 8 * (n - 1))
                   + 64 * TextBit(text, 8 * (n - 1) + 1)
                   + 32 * TextBit(text, 8 * (n - 1) + 2)
                   + 16 * TextBit(text, 8 * (n - 1) + 3)
                   + 8 * TextBit(text, 8 * (n - 1) + 4)
                   + 4 * TextBit(text, 8 * (n - 1) + 5)
                   + 2 * TextBit(text, 8 * (n - 1) + 6)
                   + TextBit(text, 8 * (n - 1) + 7)])

\* a rolling hash of bytes[i..], continued from the accumulator acc (which
\* stays in 0..65520)
RECURSIVE MixBytes(_, _, _)
MixBytes(acc, bytes, i) ==
    IF acc < 0 \/ i > Len(bytes) THEN acc
    ELSE MixBytes((acc * 31 + bytes[i] + 1) % 65521, bytes, i + 1)

DigestOf(h) == [i \in 1..32 |-> (h * (2 * i + 1) + (h \div 256) * i * i + i) % 256]

hmac_sha256(key_bytes, message_bytes) ==
    DigestOf(MixBytes((MixBytes(7, key_bytes, 1) * 3 + 1) % 65521, message_bytes, 1))

XorByte(a, b) ==
    LET bit(k) == (BitOf(a, k) + BitOf(b, k)) % 2
    IN bit(0) + 2 * bit(1) + 4 * bit(2) + 8 * bit(3)
       + 16 * bit(4) + 32 * bit(5) + 64 * bit(6) + 128 * bit(7)

(***************************************************************************)
(* cname_payload.py                                                        *)
(***************************************************************************)
\* variant: a trailing label shorter than label_cap is left out
_split_payload_labels_WholeLabelsOnly(payload_text, label_cap) ==
    IF label_cap <= 0 THEN Raise("label_cap must be positive")
    ELSE IF payload_text = <<>> THEN Raise("payload_text must be non-empty")
    ELSE Return([i \in 1..(Len(payload_text) \div label_cap) |->
                   SubSeq(payload_text, (i - 1) * label_cap + 1, i * label_cap)])

_split_payload_labels(payload_text, label_cap) ==
    IF label_cap <= 0 THEN Raise("label_cap must be positive")
    ELSE IF payload_text = <<>> THEN Raise("payload_text must be non-empty")
    ELSE
      LET count == (Len(payload_text) + label_cap - 1) \div label_cap
      IN Return([i \in 1..count |->
                   SubSeq(payload_text, (i - 1) * label_cap + 1,
                          Min(i * label_cap, Len(payload_text)))])

_enc_key(psk, file_id, publish_version) ==
    hmac_sha256(psk, PAYLOAD_ENC_KEY_LABEL \o file_id \o <<124>> \o publish_version)

RECURSIVE KeystreamBlocks(_, _, _, _, _, _)
KeystreamBlocks(enc_key, file_id, publish_version, slice_index, counter, output_len) ==
    IF 32 * counter >= output_len THEN <<>>
    ELSE hmac_sha256(enc_key,
                     PAYLOAD_ENC_STREAM_LABEL \o file_id \o <<124>> \o publish_version
                     \o <<124>> \o AsciiDigits(slice_index)
                     \o <<124>> \o AsciiDigits(counter))
         \o KeystreamBlocks(enc_key, file_id, publish_version, slice_index,
                            counter + 1, output_len)

_keystream_bytes(enc_key, file_id, publish_version, slice_index, output_len) ==
    SubSeq(KeystreamBlocks(enc_key, file_id, publish_version, slice_index, 0, output_len),
           1, output_len)

_xor_bytes(left_bytes, right_bytes) ==
    [i \in 1..Len(left_bytes) |-> XorByte(left_bytes[i], right_bytes[i])]

_encrypt_slice_bytes(psk, file_id, publish_version, slice_index, slice_bytes) ==
    _xor_bytes(slice_bytes,
               _keystream_bytes(_enc_key(psk, file_id, publish_version),
                                file_id, publish_version, slice_index,
                                Len(slice_bytes)))

_mac_key(psk, file_id, publish_version) ==
    hmac_sha256(psk, PAYLOAD_MAC_KEY_LABEL \o file_id \o <<124>> \o publish_version)

_mac_bytes(psk, file_id, publish_version, slice_index, total_slices, compressed_size, ciphertext_bytes) ==
    SubSeq(hmac_sha256(_mac_key(psk, file_id, publish_version),
                       PAYLOAD_MAC_MESSAGE_LABEL
                       \o file_id \o <<124>> \o publish_version
                       \o <<124>> \o AsciiDigits(slice_index)
                       \o <<124>> \o AsciiDigits(total_slices)
                       \o <<124>> \o AsciiDigits(compressed_size)
                       \o <<124>> \o ciphertext_bytes),
           1, PAYLOAD_MAC_TRUNC_LEN)

build_slice_record(psk, file_id, publish_version, slice_index, total_slices, compressed_size, slice_bytes) ==
    IF Len(slice_bytes) <= 0 THEN Raise("slice_bytes must be non-empty")
    ELSE IF Len(slice_bytes) > 65535 THEN Raise("slice_bytes exceeds u16 length field")
    ELSE IF total_slices <= 0 THEN Raise("total_slices must be positive")
    ELSE IF slice_index < 0 \/ slice_index >= total_slices
    THEN Raise("slice_index must be within total_slices")
    ELSE IF psk = <<>> THEN Raise("psk must be non-empty")
    ELSE IF compressed_size < 0 THEN Raise("compressed_size must be non-negative")
    ELSE IF compressed_size <= 0 THEN Raise("compressed_size must be positive")
    ELSE
      LET ciphertext == _encrypt_slice_bytes(psk, file_id, publish_version,
                                             slice_index, slice_bytes)
      IN Return(<<PAYLOAD_PROFILE_V1_BYTE, PAYLOAD_FLAGS_V1_BYTE>>
                \o PackU16(Len(slice_bytes))
                \o ciphertext
                \o _mac_bytes(psk, file_id, publish_version, slice_index,
                              total_slices, compressed_size, ciphertext))

payload_labels_for_slice(psk, file_id, publish_version, slice_index, total_slices, compressed_size, slice_bytes, label_cap) ==
    LET record_bytes == build_slice_record(psk, file_id, publish_version, slice_index,
                                           total_slices, compressed_size, slice_bytes)
    IN IF ~record_bytes.ok THEN record_bytes
       ELSE _split_payload_labels(base32_lower_no_pad(record_bytes.value), label_cap)

(***************************************************************************)
(* server.py: handle_request_message                                       *)
(***************************************************************************)
_labels_is_suffix(suffix_labels, full_labels) ==
    LET suffix_len == Len(suffix_labels)
        full_len == Len(full_labels)
    IN IF suffix_len > full_len THEN FALSE
       ELSE SubSeq(full_labels, full_len - suffix_len + 1, full_len) = suffix_labels

NoDomain == [found |-> FALSE]

RECURSIVE SelectedDomainFrom(_, _, _)
SelectedDomainFrom(config, qname_labels, index) ==
    IF index > Len(config.domain_labels_by_domain) THEN NoDomain
    ELSE IF _labels_is_suffix(config.domain_labels_by_domain[index], qname_labels)
    THEN [found |-> TRUE,
          selected_domain |-> config.domains[index],
          prefix_labels |-> SubSeq(qname_labels, 1,
                                   Len(qname_labels)
                                   - Len(config.domain_labels_by_domain[index]))]
    ELSE SelectedDomainFrom(config, qname_labels, index + 1)

_selected_domain(config, qname_labels) == SelectedDomainFrom(config, qname_labels, 1)

\* a context of None is the empty record; context keys override the record's
_build_log(classification, reason_code, context) ==
    context @@ [classification |-> classification,
                phase |-> "server",
                reason_code |-> reason_code]

NoContext == <<>>

_include_opt(config) == config.dns_edns_size > 512

\* variant: a runtime fault answered as a miss
_runtime_fault_response_AsMiss(request, config, reason_code, context) ==
    [response |-> build_response(request, DNS_RCODE_NXDOMAIN, <<>>,
                                 _include_opt(config), config.dns_edns_size),
     log |-> _build_log("miss", reason_code, context)]

_runtime_fault_response(request, config, reason_code, context) ==
    [response |-> build_response(request, DNS_RCODE_SERVFAIL, <<>>,
                                 _include_opt(config), config.dns_edns_size),
     log |-> _build_log("runtime_fault", reason_code, context)]

\* variant: a miss answered NOERROR
_miss_response_NoError(request, config, reason_code, context) ==
    [response |-> build_response(request, DNS_RCODE_NOERROR, <<>>,
                                 _include_opt(config), config.dns_edns_size),
     log |-> _build_log("miss", reason_code, context)]

_miss_response(request, config, reason_code, context) ==
    [response |-> build_response(request, DNS_RCODE_NXDOMAIN, <<>>,
                                 _include_opt(config), config.dns_edns_size),
     log |-> _build_log("miss", reason_code, context)]

\* variant: only a two-label prefix is a follow-up
_is_followup_query_ExactlyTwo(prefix_labels, response_label) ==
    Len(prefix_labels) = 2 /\ prefix_labels[Len(prefix_labels)] = response_label

_is_followup_query(prefix_labels, response_label) ==
    Len(prefix_labels) >= 2 /\ prefix_labels[Len(prefix_labels)] = response_label

\* variant: one additional record accepted whatever the EDNS mode
_invalid_additional_count_AnyMode(config, arcount) == arcount > 1

_invalid_additional_count(config, arcount) ==
    IF config.dns_edns_size = 512 THEN arcount # 0 ELSE arcount > 1

_query_section_counts(request) ==
    [qdcount |-> request.qdcount, ancount |-> request.ancount,
     nscount |-> request.nscount, arcount |-> request.arcount]

NoMiss == [reason |-> "none"]

\* variant: the envelope is not checked
_envelope_miss_reason_Unchecked(request, config) == NoMiss

_envelope_miss_reason(request, config) ==
    IF HasBit(request.flags, 15)
    THEN [reason |-> "invalid_query_flags", context |-> [flags |-> request.flags]]
    ELSE IF request.opcode # DNS_OPCODE_QUERY
    THEN [reason |-> "unsupported_opcode", context |-> [opcode |-> request.opcode]]
    ELSE IF request.qdcount # 1 \/ request.ancount # 0 \/ request.nscount # 0
    THEN [reason |-> "invalid_query_section_counts",
          context |-> _query_section_counts(request)]
    ELSE IF _invalid_additional_count(config, request.arcount)
    THEN [reason |-> "invalid_additional_count",
          context |-> [arcount |-> request.arcount,
                       dns_edns_size |-> config.dns_edns_size]]
    ELSE NoMiss

_mapped_request_context(selected_domain, file_tag, slice_token) ==
    [selected_base_domain |-> selected_domain,
     file_tag |-> file_tag,
     slice_token |-> slice_token]

\* (None, None) of the source
Dropped == [dropped |-> TRUE]

Answered(result) == [dropped |-> FALSE] @@ result

\* the tail of handle_request_message from the lookup on (server.py 187-282)
ServeMappedSlice(runtime_state, request, qname_labels, selected_domain, prefix_labels) ==
    LET config == runtime_state.config
        slice_token == prefix_labels[1]
        file_tag == prefix_labels[2]
        request_context == _mapped_request_context(selected_domain, file_tag, slice_token)
        key == <<file_tag, slice_token>>
    IN
    IF key \notin DOMAIN runtime_state.lookup_by_key
    THEN _miss_response(request, config, "mapping_not_found", request_context)
    ELSE
      LET identity_value == runtime_state.lookup_by_key[key]
          file_id == identity_value[1]
          publish_version == identity_value[2]
          slice_index == identity_value[3]
          identity == <<file_id, publish_version>>
      IN
      IF identity \notin DOMAIN runtime_state.slice_bytes_by_identity
      THEN _runtime_fault_response(request, config, "identity_missing", request_context)
      ELSE
        LET slice_table == runtime_state.slice_bytes_by_identity[identity] IN
        IF slice_index < 0 \/ slice_index >= Len(slice_table)
        THEN _runtime_fault_response(
                 request, config, "slice_index_out_of_bounds",
                 [slice_index |-> slice_index, slice_count |-> Len(slice_table)]
                 @@ request_context)
        ELSE IF identity \notin DOMAIN runtime_state.publish_meta_by_identity
        THEN _runtime_fault_response(request, config, "publish_meta_missing",
                                     request_context)
        ELSE
          LET publish_meta == runtime_state.publish_meta_by_identity[identity]
              total_slices == publish_meta[1]
              compressed_size == publish_meta[2]
          IN
          IF total_slices # Len(slice_table)
          THEN _runtime_fault_response(
                   request, config, "slice_table_length_mismatch",
                   [total_slices |-> total_slices, slice_count |-> Len(slice_table)]
                   @@ request_context)
          ELSE
            LET slice_bytes == slice_table[slice_index + 1]
                payload_labels == payload_labels_for_slice(
                    config.psk, file_id, publish_version, slice_index,
                    total_slices, compressed_size, slice_bytes,
                    config.dns_max_label_len)
                answer_bytes ==
                    IF ~payload_labels.ok THEN payload_labels
                    ELSE build_cname_answer(qname_labels, 2, payload_labels.value,
                                            config.response_label, config.ttl)
            IN
            IF ~answer_bytes.ok
            THEN _runtime_fault_response(
                     request, config, "encode_failure",
                     [message |-> answer_bytes.message] @@ request_context)
            ELSE
              [response |-> build_response(request, DNS_RCODE_NOERROR,
                                           answer_bytes.value,
                                           _include_opt(config), config.dns_edns_size),
               log |-> _build_log("served", "slice_served",
                                  [selected_base_domain |-> selected_domain,
                                   file_tag |-> file_tag,
                                   slice_token |-> slice_token,
                                   file_id |-> file_id,
                                   publish_version |-> publish_version,
                                   slice_index |-> slice_index])]

handle_request_message(runtime_state, request_bytes) ==
    LET config == runtime_state.config
        request == parse_request(request_bytes)
    IN
    IF ~request.ok THEN Dropped
    ELSE
      LET miss == _envelope_miss_reason(request, config) IN
      IF miss.reason # "none"
      THEN Answered(_miss_response(request, config, miss.reason, miss.context))
      ELSE IF ~request.question.present
      THEN Answered(_miss_response(request, config, "missing_question", NoContext))
      ELSE IF request.question.qtype # DNS_QTYPE_A
              \/ request.question.qclass # DNS_QCLASS_IN
      THEN Answered(_miss_response(request, config, "unsupported_qtype_or_class",
                                   [qtype |-> request.question.qtype,
                                    qclass |-> request.question.qclass]))
      ELSE
        LET qname_labels == request.question.qname_labels
            selected == _selected_domain(config, qname_labels)
        IN
        IF ~selected.found
        THEN Answered(_miss_response(request, config, "unknown_domain", NoContext))
        ELSE IF _is_followup_query(selected.prefix_labels, config.response_label)
        THEN Answered(
               [response |-> build_response(request, DNS_RCODE_NOERROR,
                                            build_a_answer(config.ttl),
                                            _include_opt(config), config.dns_edns_size),
                log |-> _build_log("followup", "followup_a_response",
                                   [selected_base_domain |-> selected.selected_domain])])
        ELSE IF Len(selected.prefix_labels) # 2
        THEN Answered(_miss_response(
                          request, config, "invalid_slice_qname_shape",
                          [selected_base_domain |-> selected.selected_domain,
                           label_count_before_domain |-> Len(selected.prefix_labels)]))
        ELSE Answered(ServeMappedSlice(runtime_state, request, qname_labels,
                                       selected.selected_domain,
                                       selected.prefix_labels))

(***************************************************************************)
(* Inputs: configurations, runtime states and datagrams                    *)
(***************************************************************************)
L_ex == <<101, 120>>
L_com == <<99, 111, 109>>
L_zz == <<122, 122>>
L_net == <<110, 101, 116>>
L_rx == <<114, 45, 120>>
L_t0 == <<116, 48>>
L_t1 == <<116, 49>>
L_g7 == <<103, 55, 107, 50>>
L_ab == <<97, 98, 99, 100>>
L_T0 == <<84, 48>>
L_G7 == <<71, 55, 75, 50>>
FileId1 == <<49, 102>>
Version1 == <<97, 57>>
Psk == <<107>>

\* a configuration as build_config normalizes it: lowercase domains that
\* are not suffixes of one another, a response_label with a character
\* outside the token alphabet, dns_max_label_len in 16..63
ConfigOf(edns_size) ==
    [domains |-> <<"ex.com", "zz.net">>,
     domain_labels_by_domain |-> << <<L_ex, L_com>>, <<L_zz, L_net>> >>,
     longest_domain_labels |-> <<L_ex, L_com>>,
     psk |-> Psk,
     ttl |-> 30,
     dns_edns_size |-> edns_size,
     dns_max_label_len |-> 16,
     response_label |-> L_rx,
     file_tag_len |-> 4]

EdnsSizes == {512, 1232}

Key(file_tag, slice_token) == <<file_tag, slice_token>>

\* the state build_runtime_state returns for one published file of two slices
ConsistentState(edns_size) ==
    [config |-> ConfigOf(edns_size),
     lookup_by_key |-> (Key(L_g7, L_t0) :> <<FileId1, Version1, 0>>)
                       @@ (Key(L_g7, L_t1) :> <<FileId1, Version1, 1>>),
     slice_bytes_by_identity |-> (<<FileId1, Version1>> :> << <<120>>, <<121, 122>> >>),
     publish_meta_by_identity |-> (<<FileId1, Version1>> :> <<2, 3>>),
     budget_info |-> [query_token_len |-> 2]]

\* states a caller can hand to handle_request_message by replacing fields of
\* the RuntimeState tuple (RuntimeState._replace), as the runtime tests do
FaultyStates(edns_size) ==
    LET base == ConsistentState(edns_size) IN
    { [base EXCEPT !.slice_bytes_by_identity = <<>>],
      [base EXCEPT !.publish_meta_by_identity = <<>>],
      [base EXCEPT !.lookup_by_key =
           (Key(L_g7, L_t0) :> <<FileId1, Version1, 0 - 1>>)
           @@ (Key(L_g7, L_t1) :> <<FileId1, Version1, 2>>)],
      [base EXCEPT !.publish_meta_by_identity = (<<FileId1, Version1>> :> <<3, 3>>)],
      [base EXCEPT !.slice_bytes_by_identity =
           (<<FileId1, Version1>> :> << <<>>, <<121, 122>> >>)],
      [base EXCEPT !.publish_meta_by_identity = (<<FileId1, Version1>> :> <<2, 0>>)] }

RuntimeStates ==
    UNION { {ConsistentState(e)} \cup FaultyStates(e) : e \in EdnsSizes }

Header(id, flags, qdcount, ancount, nscount, arcount) ==
    PackU16(id) \o PackU16(flags) \o PackU16(qdcount)
    \o PackU16(ancount) \o PackU16(nscount) \o PackU16(arcount)

\* a question as a client writes it (uncompressed name, qtype, qclass)
Question(labels, qtype, qclass) ==
    encode_name(labels) \o PackU16(qtype) \o PackU16(qclass)

Prefixes ==
    { <<>>, <<L_t0>>, <<L_rx>>,
      <<L_t0, L_g7>>, <<L_t1, L_g7>>, <<L_T0, L_G7>>,
      <<L_zz, L_g7>>, <<L_t0, L_zz>>,
      <<L_ab, L_rx>>, <<L_t0, L_rx>>,
      <<L_ab, L_ab, L_rx>>, <<L_ab, L_t0, L_g7>>, <<L_rx, L_t0, L_g7>> }

QuestionNames ==
    { p \o <<L_ex, L_com>> : p \in Prefixes }
    \cup { <<L_t0, L_g7, L_zz, L_net>>, <<L_ab, L_rx, L_zz, L_net>>,
           <<L_t0, L_g7, L_ex, L_net>>, <<L_t0, L_g7, L_com>>,
           <<L_ab, L_rx, L_com>>, <<>> }

QTypeClasses == { <<1, 1>>, <<28, 1>>, <<1, 3>>, <<5, 255>> }

\* bodies parse_request rejects: nothing after the header, a name that is a
\* pointer to itself, a label running past the end, a name without
\* qtype/qclass, a non-ASCII label, a reserved label type
MalformedBodies ==
    { <<>>,
      <<192, 12, 0, 1, 0, 1>>,
      <<5, 116, 48>>,
      encode_name(<<L_t0, L_g7, L_ex, L_com>>) \o <<0, 1, 0>>,
      <<1, 200, 0, 0, 1, 0, 1>>,
      <<64, 0, 0, 1, 0, 1>> }

WellFormedBodies ==
    { Question(n, tc[1], tc[2]) : n \in QuestionNames, tc \in QTypeClasses }

\* a question whose name is compressed: the labels of the slice token and
\* the file tag, then a pointer to the domain name stored after the question
\* (offset 26 = 12 + 3 + 5 + 2 + 4)
CompressedBody ==
    <<2>> \o L_t0 \o <<4>> \o L_g7 \o <<192, 26, 0, 1, 0, 1>>
    \o encode_name(<<L_ex, L_com>>)

HeaderFlags == {0, 256, 33024, 2304, 34816}

\* the section counts of the request headers range up to these
MaxQuestionCount == 2
MaxRecordCount == 1
MaxAdditionalCount == 2

EnvelopeProbeBodies ==
    { Question(<<L_t0, L_g7, L_ex, L_com>>, 1, 1),
      Question(<<L_zz, L_g7, L_ex, L_com>>, 1, 1),
      Question(<<L_ab, L_rx, L_ex, L_com>>, 28, 1),
      <<192, 12, 0, 1, 0, 1>> }

Datagrams ==
    { Header(4660, f, 1, 0, 0, ar) \o b :
        f \in {0, 256}, ar \in {0, 1},
        b \in WellFormedBodies \cup MalformedBodies \cup {CompressedBody} }
    \cup { Header(4660, f, qd, an, ns, ar) \o b :
             f \in HeaderFlags, qd \in 0..MaxQuestionCount,
             an \in 0..MaxRecordCount, ns \in 0..MaxRecordCount,
             ar \in 0..MaxAdditionalCount,
             b \in EnvelopeProbeBodies }
    \cup { <<>>, <<18, 52, 1, 0>>, SubSeq(Header(4660, 256, 0, 0, 0, 0), 1, 11),
           Header(4660, 256, 0, 0, 0, 0), Header(4660, 33024, 0, 0, 0, 0) }

(***************************************************************************)
(* State                                                                   *)
(***************************************************************************)
VARIABLES
    runtime_state,    \* the RuntimeState handed to the handler
    datagram,         \* the request bytes last handled
    handled,          \* TRUE once handle_request_message has returned
    result,           \* what it returned: Dropped, or response bytes and log
    publish_items,    \* apply_mapping: the batch of publish items
    mapping_config,   \* apply_mapping: the configuration fields it reads
    mapping_digests,  \* HMAC-SHA256 under the mapping seed, by message
    mapping_pc,       \* apply_mapping: start, resolving, returned, raised
    entries,          \* apply_mapping: the entries list
    max_len_by_index, \* apply_mapping: max token length of each entry
    canonical_order,  \* apply_mapping: entry indexes in canonical order
    mapping_error,    \* apply_mapping: the StartupError raised, if any
    mapping_rounds,   \* apply_mapping: rounds of the collision loop begun
    serve_pc,         \* serve_runtime: position of the server thread
    counters,         \* serve_runtime: the counters dictionary
    stop_state,       \* serve_runtime: the stop_state dictionary
    sock,             \* serve_runtime: the UDP socket
    sent,             \* datagrams handed to sock.sendto, oldest first
    emitted,          \* records handed to emit_record, oldest first
    iterations,       \* serve_runtime: loop iterations that reached recvfrom
    last_receive,     \* serve_runtime: how the last of them went
    serve_error,      \* serve_runtime: the StartupError raised, if any
    wire_entry,       \* dnswire: the function called, parse_request or _decode_name
    wire_message,     \* dnswire: the message argument
    wire_start,       \* dnswire: the start_offset argument of _decode_name
    wire_pc,          \* dnswire: entry, loop, question, returned, raised
    wire_offset,      \* _decode_name: offset
    wire_labels,      \* _decode_name: labels
    wire_jumped,      \* _decode_name: jumped
    wire_read_end,    \* _decode_name: read_end_offset
    wire_visited,     \* _decode_name: visited_offsets
    wire_steps,       \* _decode_name: iterations of the while loop begun
    wire_reads,       \* offsets of the message read by the last step
    wire_outcome,     \* what the call returned or raised
    codec_pc,         \* payload codec: start, rejected, built, verified, served, decoded
    codec_input,      \* payload codec: the arguments of build_slice_record and the request
    codec_record,     \* payload codec: what build_slice_record returned or raised
    codec_variant,    \* payload codec: what was handed to the client, and how altered
    codec_response,   \* payload codec: what the handler returned for the request
    codec_outcome,    \* payload codec: what the client returned or raised
    budget_pc,        \* budget: entry, loop, after_loop, returned, raised
    budget_config,    \* budget: the config argument
    budget_query_token_len, \* budget: the query_token_len argument
    budget_locals,    \* budget: candidate, max_payload_chars, winning_response_size
    budget_outcome,   \* budget: what the call returned or raised
    budget_earlier,   \* budget: dns_edns_size and outcome of the call before this one
    build_pc,         \* build_runtime_state: loop, returned, raised
    build_items,      \* build_runtime_state: the mapped_publish_items argument
    build_locals,     \* build_runtime_state: items done and the four collections
    build_outcome,    \* build_runtime_state: what the call returned or raised
    name_pc,          \* name round trip: encoding, refused, encoded, decoding
    name_labels,      \* name round trip: the labels handed to encode_name
    name_encoded,     \* name round trip: the bytes encode_name returned
    name_done,        \* name round trip: the labels encode_name has appended
    startup_pc,       \* build_startup_state: inner, phase2, converged, returned, raised
    startup_env,      \* build_startup_state: what budget, publish and mapping give
    startup_query_token_len,  \* build_startup_state: query_token_len
    startup_outer,    \* build_startup_state: iterations of the for loop begun
    startup_inner,    \* build_startup_state: iterations of this while loop done
    startup_mapped_items,     \* build_startup_state: mapped_items
    startup_combined_mapped,  \* build_startup_state: combined_mapped
    startup_budget_info,      \* build_startup_state: budget_info
    startup_max_ciphertext_slice_bytes, \* build_startup_state: max_ciphertext_slice_bytes
    startup_runtime_state,    \* build_startup_state: the RuntimeState returned
    startup_error,    \* build_startup_state: the StartupError raised, if any
    logger_pc,        \* RuntimeLogger.emit: ready, returned, raised
    logger,           \* the RuntimeLogger: its settings and rate-limit window
    logger_stream,    \* the lines the call has written to the logger's stream
    logger_call,      \* RuntimeLogger.emit: the arguments of the call and the stream's fault
    logger_result,    \* RuntimeLogger.emit: what the call returned or raised
    config_pc,        \* build_config: idle, start, returned, raised
    config_raw,       \* build_config: the response_label argument as given
    config_outcome,   \* build_config: the normalized response_label, or the error
    client_pc,        \* _download_slices: idle, while, for, returned, raised
    client_params,    \* _download_slices: its arguments
    client_missing,   \* _download_slices: missing
    client_stored,    \* _download_slices: stored
    client_rounds,    \* _download_slices: rounds
    client_consecutive_timeouts, \* _download_slices: consecutive_timeouts
    client_domain_index,         \* _download_slices: domain_index
    client_current_missing,      \* _download_slices: what the for loop has yet to visit
    client_progress_this_round,  \* _download_slices: progress_this_round
    client_queries,   \* the queries sent in the round under way
    client_accepted,  \* the (slice_index, record) pairs that were stored, in order
    client_last_outcome, \* what the last query met: none, transport, parse, answered
    client_error      \* _download_slices: the error raised, if any

handlerVars == <<runtime_state, datagram, handled, result>>
mappingVars == <<publish_items, mapping_config, mapping_digests, mapping_pc,
                 entries, max_len_by_index, canonical_order, mapping_error,
                 mapping_rounds>>
serveVars == <<serve_pc, counters, stop_state, sock, sent, emitted, iterations,
               last_receive, serve_error>>
wireVars == <<wire_entry, wire_message, wire_start, wire_pc, wire_offset,
              wire_labels, wire_jumped, wire_read_end, wire_visited, wire_steps,
              wire_reads, wire_outcome>>
\* the variables of the processes other than the handler, apply_mapping and
\* serve_runtime
codecVars == <<codec_pc, codec_input, codec_record, codec_variant, codec_response,
               codec_outcome>>
budgetVars == <<budget_pc, budget_config, budget_query_token_len, budget_locals,
                budget_outcome, budget_earlier>>
buildVars == <<build_pc, build_items, build_locals, build_outcome>>
nameVars == <<name_pc, name_labels, name_encoded, name_done>>
\* the variables of the processes that follow build_runtime_state
startupVars == <<startup_pc, startup_env, startup_query_token_len, startup_outer,
                 startup_inner, startup_mapped_items, startup_combined_mapped,
                 startup_budget_info, startup_max_ciphertext_slice_bytes,
                 startup_runtime_state, startup_error>>
loggerVars == <<logger_pc, logger, logger_stream, logger_call, logger_result>>
configVars == <<config_pc, config_raw, config_outcome>>
clientVars == <<client_pc, client_params, client_missing, client_stored, client_rounds,
                client_consecutive_timeouts, client_domain_index, client_current_missing,
                client_progress_this_round, client_queries, client_accepted,
                client_last_outcome, client_error>>
lateVars == <<nameVars, startupVars, loggerVars, configVars, clientVars>>
restVars == <<wireVars, codecVars, budgetVars, buildVars, lateVars>>
vars == <<handlerVars, mappingVars, serveVars, restVars>>

WireVarsIdle ==
    /\ wire_entry = "none"
    /\ wire_message = <<>>
    /\ wire_start = 0
    /\ wire_pc = "idle"
    /\ wire_offset = 0
    /\ wire_labels = <<>>
    /\ wire_jumped = FALSE
    /\ wire_read_end = 0
    /\ wire_visited = {}
    /\ wire_steps = 0
    /\ wire_reads = {}
    /\ wire_outcome = [kind |-> "pending"]

CodecVarsIdle ==
    /\ codec_pc = "idle"
    /\ codec_input = <<>>
    /\ codec_record = <<>>
    /\ codec_variant = <<>>
    /\ codec_response = <<>>
    /\ codec_outcome = <<>>

BudgetVarsIdle ==
    /\ budget_pc = "idle"
    /\ budget_config = <<>>
    /\ budget_query_token_len = 0
    /\ budget_locals = <<>>
    /\ budget_outcome = <<>>
    /\ budget_earlier = <<>>

BuildVarsIdle ==
    /\ build_pc = "idle"
    /\ build_items = <<>>
    /\ build_locals = <<>>
    /\ build_outcome = <<>>

NameVarsIdle ==
    /\ name_pc = "idle"
    /\ name_labels = <<>>
    /\ name_encoded = <<>>
    /\ name_done = 0

StartupVarsIdle ==
    /\ startup_pc = "idle"
    /\ startup_env = <<>>
    /\ startup_query_token_len = 0
    /\ startup_outer = 0
    /\ startup_inner = 0
    /\ startup_mapped_items = <<>>
    /\ startup_combined_mapped = <<>>
    /\ startup_budget_info = <<>>
    /\ startup_max_ciphertext_slice_bytes = 0
    /\ startup_runtime_state = <<>>
    /\ startup_error = [phase |-> "none", reason_code |-> "none"]

LoggerVarsIdle ==
    /\ logger_pc = "idle"
    /\ logger = <<>>
    /\ logger_stream = <<>>
    /\ logger_call = <<>>
    /\ logger_result = <<>>

ConfigVarsIdle ==
    /\ config_pc = "idle"
    /\ config_raw = <<>>
    /\ config_outcome = <<>>

ClientVarsIdle ==
    /\ client_pc = "idle"
    /\ client_params = <<>>
    /\ client_missing = {}
    /\ client_stored = <<>>
    /\ client_rounds = 0
    /\ client_consecutive_timeouts = 0
    /\ client_domain_index = 0
    /\ client_current_missing = <<>>
    /\ client_progress_this_round = FALSE
    /\ client_queries = 0
    /\ client_accepted = <<>>
    /\ client_last_outcome = "none"
    /\ client_error = <<>>

LateVarsIdle ==
    NameVarsIdle /\ StartupVarsIdle /\ LoggerVarsIdle /\ ConfigVarsIdle /\ ClientVarsIdle

RestVarsIdle ==
    WireVarsIdle /\ CodecVarsIdle /\ BudgetVarsIdle /\ BuildVarsIdle /\ LateVarsIdle

(***************************************************************************)
(* mapping.py                                                              *)
(***************************************************************************)
MAPPING_FILE_LABEL ==
    <<100, 110, 115, 100, 108, 101, 58, 102, 105, 108, 101, 58, 118, 49, 124>>
MAPPING_SLICE_LABEL ==
    <<100, 110, 115, 100, 108, 101, 58, 115, 108, 105, 99, 101, 58, 118, 49, 124>>

StartupError(phase, reason_code) == [phase |-> phase, reason_code |-> reason_code]
NoStartupError == [phase |-> "none", reason_code |-> "none"]

_dns_name_wire_length(labels) == 1 + LabelsWireSum(labels)

\* HMAC-SHA256 keyed by the mapping seed: a function of the message, any
\* one of those mapping_digests ranges over
_hmac_sha256(key_bytes, message_bytes) == mapping_digests[message_bytes]

_derive_file_digest(seed_bytes, publish_version_bytes) ==
    _hmac_sha256(seed_bytes, MAPPING_FILE_LABEL \o publish_version_bytes)

_derive_slice_digest(seed_bytes, publish_version_bytes, slice_index) ==
    _hmac_sha256(seed_bytes,
                 MAPPING_SLICE_LABEL \o publish_version_bytes
                 \o <<124>> \o AsciiDigits(slice_index))

\* text[:n] for n >= 0; the length of text is taken from its index set so
\* that only the characters kept are computed
TextPrefix(text, n) == [i \in 1..Min(n, Cardinality(DOMAIN text)) |-> text[i]]

_derive_file_tag(seed_bytes, publish_version, file_tag_len) ==
    TextPrefix(base32_lower_no_pad(_derive_file_digest(seed_bytes, publish_version)),
               file_tag_len)

_derive_slice_token(seed_bytes, publish_version, slice_index, token_len) ==
    TextPrefix(base32_lower_no_pad(
                   _derive_slice_digest(seed_bytes, publish_version, slice_index)),
               token_len)

_compute_tokens(seed_bytes, publish_version, total_slices, token_len) ==
    [k \in 1..total_slices |->
        _derive_slice_token(seed_bytes, publish_version, k - 1, token_len)]

Repeated(byte, n) == [i \in 1..n |-> byte]

RECURSIVE MaxTokenLenFrom(_, _, _)
MaxTokenLenFrom(config, file_tag, token_len) ==
    IF token_len <= 0 THEN 0
    ELSE IF _dns_name_wire_length(<<Repeated(97, token_len), file_tag>>
                                  \o config.longest_domain_labels)
            <= MAX_DNS_NAME_WIRE_LENGTH
    THEN token_len
    ELSE MaxTokenLenFrom(config, file_tag, token_len - 1)

_max_token_len_for_file(config, file_tag) ==
    MaxTokenLenFrom(config, file_tag, Min(config.dns_max_label_len, DIGEST_TEXT_CAPACITY))

\* (None, None) of the source
NoLocalLen == [found |-> FALSE]

RECURSIVE MinLocalLenFrom(_, _, _, _, _)
MinLocalLenFrom(seed_bytes, publish_version, total_slices, max_token_len, token_len) ==
    IF token_len > max_token_len THEN NoLocalLen
    ELSE
      LET tokens == _compute_tokens(seed_bytes, publish_version, total_slices, token_len)
      IN IF Cardinality({tokens[k] : k \in 1..total_slices}) = total_slices
         THEN [found |-> TRUE, token_len |-> token_len, tokens |-> tokens]
         ELSE MinLocalLenFrom(seed_bytes, publish_version, total_slices,
                              max_token_len, token_len + 1)

_find_min_local_len(seed_bytes, publish_version, total_slices, max_token_len) ==
    MinLocalLenFrom(seed_bytes, publish_version, total_slices, max_token_len, 1)

\* the (file_tag, token) keys in the order the source visits them, each with
\* the 0-based index of its entry
RECURSIVE KeyOccurrences(_, _)
KeyOccurrences(entry_list, index) ==
    IF index >= Len(entry_list) THEN <<>>
    ELSE [k \in 1..Len(entry_list[index + 1].slice_tokens) |->
             [index |-> index,
              key |-> <<entry_list[index + 1].file_tag,
                        entry_list[index + 1].slice_tokens[k]>>]]
         \o KeyOccurrences(entry_list, index + 1)

RECURSIVE ScanKeys(_, _, _, _)
ScanKeys(occurrences, k, owner_by_key, colliding_files) ==
    IF k > Len(occurrences) THEN colliding_files
    ELSE IF occurrences[k].key \notin DOMAIN owner_by_key
    THEN ScanKeys(occurrences, k + 1,
                  owner_by_key @@ (occurrences[k].key :> occurrences[k].index),
                  colliding_files)
    ELSE ScanKeys(occurrences, k + 1, owner_by_key,
                  colliding_files
                  \cup {owner_by_key[occurrences[k].key], occurrences[k].index})

\* variant: two entries are never compared with one another
_find_colliding_files_WithinEntry(entry_list) ==
    {index \in 0..(Len(entry_list) - 1) :
        Cardinality({entry_list[index + 1].slice_tokens[k] :
                        k \in 1..Len(entry_list[index + 1].slice_tokens)})
        # Len(entry_list[index + 1].slice_tokens)}

_find_colliding_files(entry_list) ==
    ScanKeys(KeyOccurrences(entry_list, 0), 1, <<>>, {})

\* byte strings in the order of the source's string comparison
RECURSIVE TextLess(_, _)
TextLess(a, b) ==
    IF b = <<>> THEN FALSE
    ELSE IF a = <<>> THEN TRUE
    ELSE IF Head(a) # Head(b) THEN Head(a) < Head(b)
    ELSE TextLess(Tail(a), Tail(b))

_entry_sort_key(entry) == <<entry.file_tag, entry.file_id, entry.publish_version>>

SortKeyLess(left, right) ==
    \/ TextLess(left[1], right[1])
    \/ left[1] = right[1] /\ TextLess(left[2], right[2])
    \/ left[1] = right[1] /\ left[2] = right[2] /\ TextLess(left[3], right[3])

\* sorted(range(len(entries)), key=...): a stable sort of the 0-based indexes
RECURSIVE SortedIndexes(_, _)
SortedIndexes(entry_list, count) ==
    IF count = 0 THEN <<>>
    ELSE
      LET before == SortedIndexes(entry_list, count - 1)
          key == _entry_sort_key(entry_list[count])
          keep == Cardinality({p \in 1..Len(before) :
                     ~SortKeyLess(key, _entry_sort_key(entry_list[before[p] + 1]))})
      IN SubSeq(before, 1, keep) \o <<count - 1>> \o SubSeq(before, keep + 1, Len(before))

\* the per-item loop of apply_mapping (lines 105-147), from item k on
RECURSIVE DeriveEntries(_, _, _, _, _)
DeriveEntries(items, config, k, entry_list, max_lens) ==
    IF k > Len(items)
    THEN [ok |-> TRUE, entries |-> entry_list, max_len_by_index |-> max_lens]
    ELSE
      LET seed_bytes == config.mapping_seed
          item == items[k]
          file_tag == _derive_file_tag(seed_bytes, item.publish_version,
                                       config.file_tag_len)
          max_token_len == _max_token_len_for_file(config, file_tag)
          local == _find_min_local_len(seed_bytes, item.publish_version,
                                       item.total_slices, max_token_len)
      IN
      IF file_tag = <<>>
      THEN [ok |-> FALSE, error |-> StartupError("mapping", "mapping_capacity_exceeded")]
      ELSE IF max_token_len <= 0
      THEN [ok |-> FALSE, error |-> StartupError("mapping", "mapping_capacity_exceeded")]
      ELSE IF ~local.found
      THEN [ok |-> FALSE, error |-> StartupError("mapping", "mapping_collision")]
      ELSE DeriveEntries(
               items, config, k + 1,
               Append(entry_list,
                      [file_id |-> item.file_id,
                       publish_version |-> item.publish_version,
                       total_slices |-> item.total_slices,
                       file_tag |-> file_tag,
                       slice_token_len |-> local.token_len,
                       slice_tokens |-> local.tokens]),
               Append(max_lens, max_token_len))

\* variant: the colliding entry of lowest index is promoted
PromoteIndex_LowestIndex(order, colliding_files) ==
    CHOOSE idx \in colliding_files : \A other \in colliding_files : idx <= other

\* next(idx for idx in canonical_order if idx in colliding_files)
PromoteIndex(order, colliding_files) ==
    order[CHOOSE p \in 1..Len(order) :
            /\ order[p] \in colliding_files
            /\ \A q \in 1..(p - 1) : order[q] \notin colliding_files]

(***************************************************************************)
(* apply_mapping as a process: the per-item derivation, then one action    *)
(* per round of the collision-resolution loop.                             *)
(***************************************************************************)
MappingVarsIdle ==
    /\ publish_items = <<>>
    /\ mapping_config = <<>>
    /\ mapping_digests = <<>>
    /\ mapping_pc = "idle"
    /\ entries = <<>>
    /\ max_len_by_index = <<>>
    /\ canonical_order = <<>>
    /\ mapping_error = NoStartupError
    /\ mapping_rounds = 0

\* apply_mapping, lines 103-152
ApplyMappingDerive ==
    /\ mapping_pc = "start"
    /\ \E derived \in {DeriveEntries(publish_items, mapping_config, 1, <<>>, <<>>)} :
       IF derived.ok
       THEN /\ entries' = derived.entries
            /\ max_len_by_index' = derived.max_len_by_index
            /\ canonical_order' = SortedIndexes(derived.entries, Len(derived.entries))
            /\ mapping_pc' = "resolving"
            /\ UNCHANGED mapping_error
       ELSE /\ mapping_pc' = "raised"
            /\ mapping_error' = derived.error
            /\ UNCHANGED <<entries, max_len_by_index, canonical_order>>
    /\ UNCHANGED <<publish_items, mapping_config, mapping_digests, mapping_rounds>>

\* a round that finds no colliding file: the loop breaks and entries is returned
ApplyMappingReturn ==
    /\ mapping_pc = "resolving"
    /\ _find_colliding_files(entries) = {}
    /\ mapping_pc' = "returned"
    /\ mapping_rounds' = mapping_rounds + 1
    /\ UNCHANGED <<publish_items, mapping_config, mapping_digests, entries,
                   max_len_by_index, canonical_order, mapping_error>>

\* a round whose promoted entry is at its maximum length
ApplyMappingCollision ==
    /\ mapping_pc = "resolving"
    /\ \E colliding_files \in {_find_colliding_files(entries)} :
         /\ colliding_files # {}
         /\ LET promote_idx == PromoteIndex(canonical_order, colliding_files)
            IN entries[promote_idx + 1].slice_token_len >= max_len_by_index[promote_idx + 1]
    /\ mapping_pc' = "raised"
    /\ mapping_error' = StartupError("mapping", "mapping_collision")
    /\ mapping_rounds' = mapping_rounds + 1
    /\ UNCHANGED <<publish_items, mapping_config, mapping_digests, entries,
                   max_len_by_index, canonical_order>>

\* variant: the promoted entry takes two more characters
ApplyMappingPromote_ByTwo ==
    /\ mapping_pc = "resolving"
    /\ \E colliding_files \in {_find_colliding_files(entries)} :
         /\ colliding_files # {}
         /\ LET promote_idx == PromoteIndex(canonical_order, colliding_files)
                entry == entries[promote_idx + 1]
                new_len == entry.slice_token_len + 2
            IN /\ entry.slice_token_len < max_len_by_index[promote_idx + 1]
               /\ entries' = [entries EXCEPT ![promote_idx + 1] =
                      [entry EXCEPT !.slice_token_len = new_len,
                                    !.slice_tokens = _compute_tokens(
                                         mapping_config.mapping_seed, entry.publish_version,
                                         entry.total_slices, new_len)]]
    /\ mapping_rounds' = mapping_rounds + 1
    /\ UNCHANGED <<publish_items, mapping_config, mapping_digests, mapping_pc,
                   max_len_by_index, canonical_order, mapping_error>>

\* a round that promotes one entry to the next token length
ApplyMappingPromote ==
    /\ mapping_pc = "resolving"
    /\ \E colliding_files \in {_find_colliding_files(entries)} :
         /\ colliding_files # {}
         /\ LET promote_idx == PromoteIndex(canonical_order, colliding_files)
                entry == entries[promote_idx + 1]
                new_len == entry.slice_token_len + 1
            IN /\ entry.slice_token_len < max_len_by_index[promote_idx + 1]
               /\ entries' = [entries EXCEPT ![promote_idx + 1] =
                      [entry EXCEPT !.slice_token_len = new_len,
                                    !.slice_tokens = _compute_tokens(
                                         mapping_config.mapping_seed, entry.publish_version,
                                         entry.total_slices, new_len)]]
    /\ mapping_rounds' = mapping_rounds + 1
    /\ UNCHANGED <<publish_items, mapping_config, mapping_digests, mapping_pc,
                   max_len_by_index, canonical_order, mapping_error>>

(***************************************************************************)
(* Inputs of apply_mapping: batches of publish items with distinct file    *)
(* ids and publish versions, configurations whose longest domain leaves    *)
(* room for 3, 2, 1 or 0 token characters, and digest assignments under    *)
(* which file tags and slice tokens collide at lengths 1, 2 and 3 or       *)
(* at every length.                                                        *)
(***************************************************************************)
\* a batch holds at most this many slices, in files of at least one slice
MaxTotalSlices == 3

\* 16 hexadecimal characters, as _derive_file_id returns
FileIdOf(f) == Repeated(102 - f, 16)
\* 64 hexadecimal characters, as _sha256_hex returns
PublishVersionOf(f) == Repeated(48 + f, 64)

PublishItem(f, total_slices) ==
    [file_id |-> FileIdOf(f),
     publish_version |-> PublishVersionOf(f),
     total_slices |-> total_slices]

RECURSIVE SumOfCounts(_, _)
SumOfCounts(counts, n) == IF n = 0 THEN 0 ELSE counts[n] + SumOfCounts(counts, n - 1)

SliceCountLists ==
    UNION { { counts \in [1..n -> 1..MaxTotalSlices] :
                SumOfCounts(counts, n) <= MaxTotalSlices } : n \in 1..MaxTotalSlices }

\* the files of a batch in ascending and in descending order of publish
\* version (file ids descend as publish versions ascend)
PublishBatches ==
    UNION { { [p \in 1..Len(counts) |-> PublishItem(p, counts[p])],
              [p \in 1..Len(counts) |->
                  PublishItem(Len(counts) + 1 - p, counts[p])] } :
            counts \in SliceCountLists }

MappingSeed == <<115>>

MappingConfigOf(longest_domain_labels) ==
    [mapping_seed |-> MappingSeed,
     file_tag_len |-> 4,
     dns_max_label_len |-> 16,
     longest_domain_labels |-> longest_domain_labels]

LongDomain(last_label_len) ==
    <<Repeated(97, 63), Repeated(97, 63), Repeated(97, 63), Repeated(97, last_label_len)>>

\* longest domains of 245 to 248 characters: the QNAME limit of 255 bytes
\* leaves 3, 2, 1 or 0 characters for the slice token
MappingConfigs ==
    { MappingConfigOf(LongDomain(52)), MappingConfigOf(LongDomain(53)),
      MappingConfigOf(LongDomain(54)), MappingConfigOf(LongDomain(55)) }

DigestWith(first, second) ==
    [i \in 1..32 |-> IF i = 1 THEN first ELSE IF i = 2 THEN second ELSE 0]

\* digests whose texts start "aaaa" and "baaa"
FileDigests == { DigestWith(0, 0), DigestWith(8, 0) }
\* digests whose texts start "aaa", "aba" and "aab"
SliceDigests == { DigestWith(0, 0), DigestWith(0, 64), DigestWith(0, 2) }

FileMessages(items) ==
    { MAPPING_FILE_LABEL \o items[p].publish_version : p \in 1..Len(items) }

SliceMessages(items) ==
    UNION { { MAPPING_SLICE_LABEL \o items[p].publish_version
              \o <<124>> \o AsciiDigits(k - 1) : k \in 1..items[p].total_slices } :
            p \in 1..Len(items) }

DigestAssignments(items) ==
    { of_file @@ of_slice : of_file \in [FileMessages(items) -> FileDigests],
                            of_slice \in [SliceMessages(items) -> SliceDigests] }

(***************************************************************************)
(* server.py: _validate_runtime_state_for_serving and serve_runtime        *)
(***************************************************************************)
_validate_runtime_state_for_serving(state) ==
    LET config == state.config IN
    IF "query_token_len" \notin DOMAIN state.budget_info
    THEN Raise("budget_info missing query_token_len")
    ELSE
      LET question_labels ==
              <<Repeated(97, state.budget_info.query_token_len),
                Repeated(98, config.file_tag_len)>> \o config.longest_domain_labels
          payload_labels == payload_labels_for_slice(
              config.psk, Repeated(48, 16), Repeated(49, 64), 0, 1, 1, <<120>>,
              config.dns_max_label_len)
          answer == IF ~payload_labels.ok THEN payload_labels
                    ELSE build_cname_answer(question_labels, 2, payload_labels.value,
                                            config.response_label, config.ttl)
      IN IF ~answer.ok
         THEN Raise("runtime response encoding invariant check failed")
         ELSE IF ~NameEncodable(question_labels)
         THEN Raise("runtime response encoding invariant check failed")
         ELSE Return(build_response(
                  [id |-> 0, flags |-> 0,
                   question |-> [present |-> TRUE, qname_labels |-> question_labels,
                                 qtype |-> DNS_QTYPE_A, qclass |-> DNS_QCLASS_IN]],
                  DNS_RCODE_NOERROR, answer.value, _include_opt(config),
                  config.dns_edns_size))

ZeroCounters ==
    [served |-> 0, followup |-> 0, miss |-> 0, runtime_fault |-> 0, dropped |-> 0]

\* variant: a dropped datagram counted as a miss
CountDropped_AsMiss(counts) == [counts EXCEPT !.miss = @ + 1]

CountDropped(counts) == [counts EXCEPT !.dropped = @ + 1]

CountRuntimeFault(counts) == [counts EXCEPT !.runtime_fault = @ + 1]

\* variant: only served responses are counted
CountClassified_ServedOnly(counts, log_record) ==
    IF log_record.classification = "served"
    THEN [counts EXCEPT !.served = @ + 1]
    ELSE counts

\* if classification in counters: counters[classification] += 1
CountClassified(counts, log_record) ==
    IF log_record.classification \in DOMAIN counts
    THEN [counts EXCEPT ![log_record.classification] = @ + 1]
    ELSE counts

ServerStartRecord == [classification |-> "server_start", phase |-> "server"]

ShutdownRecord(reason_code, counts) ==
    [classification |-> "shutdown", phase |-> "server", reason_code |-> reason_code,
     served |-> counts.served, followup |-> counts.followup, miss |-> counts.miss,
     runtime_fault |-> counts.runtime_fault, dropped |-> counts.dropped]

SignalNumbers == {2, 15}
SignalReason(signum) == IF signum = 2 THEN "signal_2" ELSE "signal_15"

ServeVarsIdle ==
    /\ serve_pc = "idle"
    /\ counters = ZeroCounters
    /\ stop_state = [stop |-> FALSE, reason |-> "stop_requested"]
    /\ sock = "none"
    /\ sent = <<>>
    /\ emitted = <<>>
    /\ iterations = 0
    /\ last_receive = "none"
    /\ serve_error = NoStartupError

\* datagrams the serve loop receives: two that cannot be parsed (one with
\* the QR bit set in its header), and one for each kind of answer
ServeDatagrams ==
    { <<192, 12>>,
      Header(4660, 33024, 1, 0, 0, 0),
      Header(4660, 256, 1, 0, 0, 0) \o Question(<<L_t0, L_g7, L_ex, L_com>>, 1, 1),
      Header(4660, 256, 1, 0, 0, 0) \o Question(<<L_ab, L_rx, L_ex, L_com>>, 1, 1),
      Header(4660, 256, 1, 0, 0, 0) \o Question(<<L_t1, L_ab, L_zz, L_net>>, 1, 1) }

\* a state whose budget_info lacks query_token_len
UnvalidatedState == [ConsistentState(512) EXCEPT !.budget_info = <<>>]

\* a state whose query_token_len exceeds the 63 bytes of a label: the
\* question of the self-check cannot be encoded
OverlongTokenState == [ConsistentState(1232) EXCEPT !.budget_info = [query_token_len |-> 64]]

ServeStates ==
    { ConsistentState(512), ConsistentState(1232),
      [ConsistentState(512) EXCEPT !.slice_bytes_by_identity = <<>>],
      UnvalidatedState, OverlongTokenState }

MaxIterations == 2

\* variant: the socket is created and server_start emitted before the self-check
ServeStartupInvalid_AfterBind ==
    /\ serve_pc = "start"
    /\ ~_validate_runtime_state_for_serving(runtime_state).ok
    /\ sock' = "closed"
    /\ emitted' = Append(emitted, ServerStartRecord)
    /\ serve_pc' = "raised"
    /\ serve_error' = StartupError("startup", "server_runtime_invalid")
    /\ UNCHANGED <<counters, stop_state, sent, iterations,
                   last_receive, handlerVars, mappingVars, restVars>>

\* serve_runtime when the startup self-check raises
ServeStartupInvalid ==
    /\ serve_pc = "start"
    /\ ~_validate_runtime_state_for_serving(runtime_state).ok
    /\ serve_pc' = "raised"
    /\ serve_error' = StartupError("startup", "server_runtime_invalid")
    /\ UNCHANGED <<counters, stop_state, sock, sent, emitted, iterations,
                   last_receive, handlerVars, mappingVars, restVars>>

\* serve_runtime when sock.bind raises socket.error
ServeBindFailed ==
    /\ serve_pc = "start"
    /\ _validate_runtime_state_for_serving(runtime_state).ok
    /\ sock' = "closed"
    /\ serve_pc' = "raised"
    /\ serve_error' = StartupError("startup", "bind_failed")
    /\ UNCHANGED <<counters, stop_state, sent, emitted, iterations, last_receive,
                   handlerVars, mappingVars, restVars>>

\* serve_runtime up to the first test of the loop condition
ServeStarted ==
    /\ serve_pc = "start"
    /\ _validate_runtime_state_for_serving(runtime_state).ok
    /\ sock' = "open"
    /\ counters' = ZeroCounters
    /\ stop_state' = [stop |-> FALSE, reason |-> "stop_requested"]
    /\ emitted' = Append(emitted, ServerStartRecord)
    /\ serve_pc' = "loop"
    /\ UNCHANGED <<sent, iterations, last_receive, serve_error, handlerVars,
                   mappingVars, restVars>>

\* _request_stop, the handler installed for SIGINT and SIGTERM
RequestStop(signum) ==
    /\ serve_pc \in {"loop", "exiting"}
    /\ stop_state' = [stop |-> TRUE, reason |-> SignalReason(signum)]
    /\ UNCHANGED <<serve_pc, counters, sock, sent, emitted, iterations,
                   last_receive, serve_error, handlerVars, mappingVars, restVars>>

\* variant: the loop condition does not read stop_state
InLoop_IgnoresStop == serve_pc = "loop" /\ iterations < MaxIterations

\* while not stop_state["stop"], for the iterations the model follows
InLoop == serve_pc = "loop" /\ ~stop_state.stop /\ iterations < MaxIterations

\* an iteration in which stop_requested() returns true
LoopStopCallback ==
    /\ serve_pc = "loop" /\ ~stop_state.stop
    /\ stop_state' = [stop |-> TRUE, reason |-> "stop_callback"]
    /\ serve_pc' = "exiting"
    /\ UNCHANGED <<counters, sock, sent, emitted, iterations, last_receive,
                   serve_error, handlerVars, mappingVars, restVars>>

\* an iteration in which recvfrom raises socket.timeout
LoopReceiveTimeout ==
    /\ InLoop
    /\ iterations' = iterations + 1
    /\ last_receive' = "timeout"
    /\ UNCHANGED <<serve_pc, counters, stop_state, sock, sent, emitted,
                   serve_error, handlerVars, mappingVars, restVars>>

\* an iteration in which recvfrom raises KeyboardInterrupt
LoopKeyboardInterrupt ==
    /\ InLoop
    /\ iterations' = iterations + 1
    /\ last_receive' = "keyboard_interrupt"
    /\ stop_state' = [stop |-> TRUE, reason |-> "keyboard_interrupt"]
    /\ UNCHANGED <<serve_pc, counters, sock, sent, emitted, serve_error,
                   handlerVars, mappingVars, restVars>>

\* an iteration in which recvfrom raises socket.error
LoopReceiveError ==
    /\ InLoop
    /\ iterations' = iterations + 1
    /\ last_receive' = "recv_error"
    /\ emitted' = Append(emitted, _build_log("runtime_fault", "recv_error",
                                             [message |-> "socket.error"]))
    /\ counters' = CountRuntimeFault(counters)
    /\ UNCHANGED <<serve_pc, stop_state, sock, sent, serve_error, handlerVars,
                   mappingVars, restVars>>

\* the rest of an iteration once response_bytes and log_record are known:
\* the drop, or sendto and the classified record
AfterHandling(counts, records, outcome, send_ok) ==
    IF outcome.dropped
    THEN /\ counters' = CountDropped(counts)
         /\ emitted' = records
         /\ UNCHANGED sent
    ELSE IF ~send_ok
    THEN /\ counters' = CountRuntimeFault(counts)
         /\ emitted' = Append(records, _build_log("runtime_fault", "send_error",
                                                  [message |-> "socket.error"]))
         /\ UNCHANGED sent
    ELSE /\ sent' = Append(sent, outcome.response)
         /\ counters' = CountClassified(counts, outcome.log)
         /\ emitted' = Append(records, outcome.log)

\* variant: a served slice is taken out of the lookup table
LoopDatagram_ConsumesSlice(request_bytes, send_ok) ==
    /\ InLoop
    /\ iterations' = iterations + 1
    /\ last_receive' = "datagram"
    /\ datagram' = request_bytes
    /\ \E outcome \in {handle_request_message(runtime_state, request_bytes)} :
         /\ result' = outcome
         /\ AfterHandling(counters, emitted, outcome, send_ok)
         /\ runtime_state' =
              IF ~outcome.dropped /\ outcome.log.classification = "served"
              THEN [runtime_state EXCEPT !.lookup_by_key = <<>>]
              ELSE runtime_state
    /\ UNCHANGED <<serve_pc, stop_state, sock, serve_error, handled,
                   mappingVars, restVars>>

\* the iteration were socket.error from sendto not caught: it leaves the loop
LoopDatagram_SendErrorEscapes(request_bytes, send_ok) ==
    /\ InLoop
    /\ iterations' = iterations + 1
    /\ last_receive' = "datagram"
    /\ datagram' = request_bytes
    /\ \E outcome \in {handle_request_message(runtime_state, request_bytes)} :
         /\ result' = outcome
         /\ AfterHandling(counters, emitted, outcome, send_ok)
         /\ serve_pc' = IF outcome.dropped \/ send_ok THEN serve_pc ELSE "raised"
         /\ sock' = IF outcome.dropped \/ send_ok THEN sock ELSE "closed"
    /\ UNCHANGED <<stop_state, serve_error, runtime_state, handled, mappingVars, restVars>>

\* an iteration that receives a datagram and whose handler call returns
LoopDatagram(request_bytes, send_ok) ==
    /\ InLoop
    /\ iterations' = iterations + 1
    /\ last_receive' = "datagram"
    /\ datagram' = request_bytes
    /\ \E outcome \in {handle_request_message(runtime_state, request_bytes)} :
         /\ result' = outcome
         /\ AfterHandling(counters, emitted, outcome, send_ok)
    /\ UNCHANGED <<serve_pc, stop_state, sock, serve_error, runtime_state, handled,
                   mappingVars, restVars>>

HandlerRaised == [dropped |-> FALSE, raised |-> TRUE]

\* an iteration that receives a datagram and whose handler call raises: the
\* source catches Exception, whatever escapes handle_request_message
LoopHandlerRaised(request_bytes, send_ok) ==
    /\ InLoop
    /\ iterations' = iterations + 1
    /\ last_receive' = "handler_raised"
    /\ datagram' = request_bytes
    /\ result' = HandlerRaised
    /\ LET request == parse_request(request_bytes)
           config == runtime_state.config
           counted == CountRuntimeFault(counters)
           logged == Append(emitted,
                            _build_log("runtime_fault", "unhandled_request_exception",
                                       [message |-> "exception"]))
       IN AfterHandling(
              counted, logged,
              IF ~request.ok THEN Dropped
              ELSE Answered([response |-> build_response(
                                 request, DNS_RCODE_SERVFAIL, <<>>,
                                 _include_opt(config), config.dns_edns_size),
                             log |-> _build_log("runtime_fault", "servfail_fallback",
                                                NoContext)]),
              send_ok)
    /\ UNCHANGED <<serve_pc, stop_state, sock, serve_error, runtime_state, handled,
                   mappingVars, restVars>>

\* the loop condition found false, or the break: handlers restored, socket
\* closed, shutdown record emitted, 0 returned
ServeShutdown ==
    /\ (serve_pc = "loop" /\ stop_state.stop) \/ serve_pc = "exiting"
    /\ sock' = "closed"
    /\ emitted' = Append(emitted, ShutdownRecord(stop_state.reason, counters))
    /\ serve_pc' = "returned"
    /\ UNCHANGED <<counters, stop_state, sent, iterations, last_receive,
                   serve_error, handlerVars, mappingVars, restVars>>

(***************************************************************************)
(* Specifications                                                          *)
(***************************************************************************)
\* one call of handle_request_message on any state and datagram
Init ==
    /\ runtime_state \in RuntimeStates
    /\ datagram = <<>>
    /\ handled = FALSE
    /\ result = Dropped
    /\ MappingVarsIdle
    /\ ServeVarsIdle
    /\ RestVarsIdle

HandleRequest(request_bytes) ==
    /\ ~handled
    /\ datagram' = request_bytes
    /\ handled' = TRUE
    /\ result' = handle_request_message(runtime_state, request_bytes)
    /\ UNCHANGED <<runtime_state, mappingVars, serveVars, restVars>>

Next == \E request_bytes \in Datagrams : HandleRequest(request_bytes)

Spec == Init /\ [][Next]_vars

\* one run of apply_mapping
InitMapping ==
    /\ publish_items \in PublishBatches
    /\ mapping_config \in MappingConfigs
    /\ mapping_digests \in DigestAssignments(publish_items)
    /\ mapping_pc = "start"
    /\ entries = <<>>
    /\ max_len_by_index = <<>>
    /\ canonical_order = <<>>
    /\ mapping_error = NoStartupError
    /\ mapping_rounds = 0
    /\ runtime_state = ConsistentState(512)
    /\ datagram = <<>>
    /\ handled = FALSE
    /\ result = Dropped
    /\ ServeVarsIdle
    /\ RestVarsIdle

NextMapping ==
    \/ ApplyMappingDerive /\ UNCHANGED <<handlerVars, serveVars, restVars>>
    \/ ApplyMappingReturn /\ UNCHANGED <<handlerVars, serveVars, restVars>>
    \/ ApplyMappingCollision /\ UNCHANGED <<handlerVars, serveVars, restVars>>
    \/ ApplyMappingPromote /\ UNCHANGED <<handlerVars, serveVars, restVars>>

SpecMapping == InitMapping /\ [][NextMapping]_vars

\* a round of the collision loop
CollisionRound ==
    (ApplyMappingReturn \/ ApplyMappingCollision \/ ApplyMappingPromote)
      /\ UNCHANGED <<handlerVars, serveVars, restVars>>

\* batches for the runs in which termination is followed
MaxLoopSlices == 3

\* the batches of at most MaxLoopSlices slices, files in ascending order of
\* publish version
LoopBatches ==
    { items \in PublishBatches :
        /\ SumOfCounts([p \in 1..Len(items) |-> items[p].total_slices], Len(items))
             <= MaxLoopSlices
        /\ items[1].publish_version = PublishVersionOf(1) }

\* digest assignments under which the files of the batch get one file tag,
\* so that equal slice tokens collide
OneTagAssignments(items) ==
    { digests \in DigestAssignments(items) :
        \A m1 \in FileMessages(items), m2 \in FileMessages(items) :
            digests[m1] = digests[m2] }

InitCollisionLoop ==
    /\ publish_items \in LoopBatches
    /\ mapping_config \in MappingConfigs
    /\ mapping_digests \in OneTagAssignments(publish_items)
    /\ mapping_pc = "start"
    /\ entries = <<>>
    /\ max_len_by_index = <<>>
    /\ canonical_order = <<>>
    /\ mapping_error = NoStartupError
    /\ mapping_rounds = 0
    /\ runtime_state = ConsistentState(512)
    /\ datagram = <<>>
    /\ handled = FALSE
    /\ result = Dropped
    /\ ServeVarsIdle
    /\ RestVarsIdle

\* one run of apply_mapping whose loop runs on: a round that can be taken
\* is taken
SpecCollisionLoop == InitCollisionLoop /\ [][NextMapping]_vars /\ WF_vars(CollisionRound)

\* one run of serve_runtime
InitServe ==
    /\ runtime_state \in ServeStates
    /\ datagram = <<>>
    /\ handled = FALSE
    /\ result = Dropped
    /\ MappingVarsIdle
    /\ serve_pc = "start"
    /\ counters = ZeroCounters
    /\ stop_state = [stop |-> FALSE, reason |-> "stop_requested"]
    /\ sock = "none"
    /\ sent = <<>>
    /\ emitted = <<>>
    /\ iterations = 0
    /\ last_receive = "none"
    /\ serve_error = NoStartupError
    /\ RestVarsIdle

NextServe ==
    \/ ServeStartupInvalid
    \/ ServeBindFailed
    \/ ServeStarted
    \/ \E signum \in SignalNumbers : RequestStop(signum)
    \/ LoopStopCallback
    \/ LoopReceiveTimeout
    \/ LoopKeyboardInterrupt
    \/ LoopReceiveError
    \/ \E request_bytes \in ServeDatagrams, send_ok \in BOOLEAN :
         LoopDatagram(request_bytes, send_ok)
    \/ \E request_bytes \in ServeDatagrams, send_ok \in BOOLEAN :
         LoopHandlerRaised(request_bytes, send_ok)
    \/ ServeShutdown

SpecServe == InitServe /\ [][NextServe]_vars

\* the thread of serve_runtime keeps running: once the loop is left, the
\* finally block and the shutdown record follow
FairSpecServe == SpecServe /\ WF_vars(ServeShutdown)

(***************************************************************************)
(* dnswire.py as a process: parse_request and _decode_name one step at a   *)
(* time, each step recording the offsets of the message it reads.          *)
(***************************************************************************)
\* message[offset]; 0 stands for the byte that no message holds
ReadByte(message, offset) == IF offset < Len(message) THEN message[offset + 1] ELSE 0

\* indexing at or past the end of the message raises IndexError, and
\* struct.unpack of a short slice raises struct.error
ReadFailure(message, offsets) == \E o \in offsets : o >= Len(message)

Returned(value) == [kind |-> "returned", value |-> value]
RaisedError(name) == [kind |-> "raised", error |-> name]

\* the checks of _decode_name and _decode_question
NameExtendsPast(message, offset) == offset >= Len(message)

PointerTruncated_OffByOne(message, offset) == offset + 1 > Len(message)

PointerTruncated(message, offset) == offset + 1 >= Len(message)

PointerOutOfBounds(message, pointer) == pointer >= Len(message)

PointerLoop_Unchecked(pointer, visited) == FALSE

PointerLoop(pointer, visited) == pointer \in visited

LabelExtendsPast(message, end_offset) == end_offset > Len(message)

QuestionTruncated(message, offset) == offset + 4 > Len(message)

NameRaise(offsets) == [kind |-> "raise", reads |-> offsets]

\* one iteration of the while loop of _decode_name
DecodeNameIteration(message, offset, labels, jumped, read_end, visited) ==
    IF NameExtendsPast(message, offset) THEN NameRaise({})
    ELSE
      LET first == ReadByte(message, offset) IN
      IF first >= DNS_POINTER_TAG THEN
        IF PointerTruncated(message, offset) THEN NameRaise({offset})
        ELSE
          LET pointer == (first % 64) * 256 + ReadByte(message, offset + 1) IN
          IF PointerOutOfBounds(message, pointer) THEN NameRaise({offset, offset + 1})
          ELSE IF PointerLoop(pointer, visited) THEN NameRaise({offset, offset + 1})
          ELSE [kind |-> "continue", reads |-> {offset, offset + 1},
                offset |-> pointer, labels |-> labels, jumped |-> TRUE,
                read_end |-> IF jumped THEN read_end ELSE offset + 2,
                visited |-> visited \cup {pointer}]
      ELSE IF first >= 64 THEN NameRaise({offset})
      ELSE IF first = 0 THEN
        [kind |-> "break", reads |-> {offset}, offset |-> offset + 1,
         labels |-> labels, jumped |-> jumped, read_end |-> read_end,
         visited |-> visited]
      ELSE
        LET end_offset == offset + 1 + first IN
        IF LabelExtendsPast(message, end_offset) THEN NameRaise({offset})
        ELSE
          \* a slice stops at the end of the message without raising
          LET last == Min(end_offset, Len(message))
              raw == [i \in 1..(last - offset - 1) |-> ReadByte(message, offset + i)]
              read == offset..(last - 1)
          IN IF \E i \in 1..Len(raw) : raw[i] >= 128 THEN NameRaise(read)
             ELSE IF Len(labels) + 1 > 127 THEN NameRaise(read)
             ELSE [kind |-> "continue", reads |-> read, offset |-> end_offset,
                   labels |-> Append(labels, Lower(raw)), jumped |-> jumped,
                   read_end |-> read_end, visited |-> visited]

\* parse_request up to the call of _decode_question
WireParseRequestEntry ==
    /\ wire_pc = "entry" /\ wire_entry = "parse_request"
    /\ IF Len(wire_message) < DNS_HEADER_BYTES
       THEN /\ wire_pc' = "raised"
            /\ wire_outcome' = RaisedError("DnsParseError")
            /\ wire_reads' = {}
       ELSE /\ wire_reads' = 0..(DNS_HEADER_BYTES - 1)
            /\ IF UnpackU16(wire_message, 4) >= 1
               THEN /\ wire_pc' = "loop"
                    /\ wire_outcome' = wire_outcome
               ELSE /\ wire_pc' = "returned"
                    /\ wire_outcome' = Returned(parse_request(wire_message))
    /\ wire_offset' = DNS_HEADER_BYTES
    /\ UNCHANGED <<wire_entry, wire_message, wire_start, wire_labels, wire_jumped,
                   wire_read_end, wire_visited, wire_steps>>

\* a call of _decode_name up to its while loop
WireDecodeNameEntry ==
    /\ wire_pc = "entry" /\ wire_entry = "_decode_name"
    /\ wire_pc' = "loop"
    /\ wire_offset' = wire_start
    /\ UNCHANGED <<wire_entry, wire_message, wire_start, wire_labels, wire_jumped,
                   wire_read_end, wire_visited, wire_steps, wire_reads,
                   wire_outcome>>

\* one iteration of the while loop; after the break _decode_name returns
\* (labels, read_end_offset if jumped else offset)
WireDecodeNameStep ==
    /\ wire_pc = "loop"
    /\ wire_steps' = wire_steps + 1
    /\ \E it \in {DecodeNameIteration(wire_message, wire_offset, wire_labels,
                                     wire_jumped, wire_read_end, wire_visited)} :
         /\ wire_reads' = it.reads
         /\ IF ReadFailure(wire_message, it.reads)
            THEN /\ wire_pc' = "raised"
                 /\ wire_outcome' = RaisedError("IndexError")
                 /\ UNCHANGED <<wire_offset, wire_labels, wire_jumped,
                                wire_read_end, wire_visited>>
            ELSE IF it.kind = "raise"
            THEN /\ wire_pc' = "raised"
                 /\ wire_outcome' = RaisedError("DnsParseError")
                 /\ UNCHANGED <<wire_offset, wire_labels, wire_jumped,
                                wire_read_end, wire_visited>>
            ELSE /\ wire_labels' = it.labels
                 /\ wire_jumped' = it.jumped
                 /\ wire_read_end' = it.read_end
                 /\ wire_visited' = it.visited
                 /\ IF it.kind = "continue"
                    THEN /\ wire_offset' = it.offset
                         /\ wire_pc' = "loop"
                         /\ wire_outcome' = wire_outcome
                    ELSE /\ wire_offset' = IF it.jumped THEN it.read_end ELSE it.offset
                         /\ IF wire_entry = "_decode_name"
                            THEN /\ wire_pc' = "returned"
                                 /\ wire_outcome' =
                                      Returned([ok |-> TRUE, labels |-> it.labels,
                                                next_offset |->
                                                    IF it.jumped THEN it.read_end
                                                    ELSE it.offset])
                            ELSE /\ wire_pc' = "question"
                                 /\ wire_outcome' = wire_outcome
    /\ UNCHANGED <<wire_entry, wire_message, wire_start>>

\* _decode_question after the name, and the rest of parse_request
WireQuestionTail ==
    /\ wire_pc = "question"
    /\ IF QuestionTruncated(wire_message, wire_offset)
       THEN /\ wire_pc' = "raised"
            /\ wire_outcome' = RaisedError("DnsParseError")
            /\ wire_reads' = {}
       ELSE /\ wire_reads' = wire_offset..(wire_offset + 3)
            /\ IF ReadFailure(wire_message, wire_offset..(wire_offset + 3))
               THEN /\ wire_pc' = "raised"
                    /\ wire_outcome' = RaisedError("struct.error")
               ELSE /\ wire_pc' = "returned"
                    /\ wire_outcome' =
                         Returned([ok |-> TRUE,
                                   id |-> UnpackU16(wire_message, 0),
                                   flags |-> UnpackU16(wire_message, 2),
                                   opcode |-> ((UnpackU16(wire_message, 2) \div 2048) % 16) * 2048,
                                   qdcount |-> UnpackU16(wire_message, 4),
                                   ancount |-> UnpackU16(wire_message, 6),
                                   nscount |-> UnpackU16(wire_message, 8),
                                   arcount |-> UnpackU16(wire_message, 10),
                                   question |->
                                       [present |-> TRUE,
                                        qname_labels |-> wire_labels,
                                        qtype |-> UnpackU16(wire_message, wire_offset),
                                        qclass |-> UnpackU16(wire_message, wire_offset + 2)]])
    /\ UNCHANGED <<wire_entry, wire_message, wire_start, wire_offset, wire_labels,
                   wire_jumped, wire_read_end, wire_visited, wire_steps>>

\* messages of at most this many bytes, and questions of at most this many
MaxWireLen == 4

\* label lengths and pointer targets 0..2, a letter (an invalid label type
\* as a first byte), the pointer tag, and a non-ASCII byte that as a first
\* byte is a pointer with high offset bits
WireAlphabet == {0, 1, 2, 65, 192, 200}

WireMessages == UNION { [1..n -> WireAlphabet] : n \in 0..MaxWireLen }

\* after a header, pointer targets 0 (the header), 12 and 13 (the question)
QuestionAlphabet == {0, 1, 12, 13, 65, 192}

QuestionBytes == UNION { [1..n -> QuestionAlphabet] : n \in 0..MaxWireLen }

\* headers whose first bytes are a pointer to offset 12 and the root name,
\* and one without a question
ProbeHeaders ==
    { Header(49164, 256, 1, 0, 0, 0), Header(0, 256, 1, 0, 0, 0),
      Header(4660, 256, 0, 0, 0, 0) }

ParseMessages ==
    { h \o q : h \in ProbeHeaders, q \in QuestionBytes }
    \cup ServeDatagrams
    \cup { Header(4660, 256, 1, 0, 0, 0) \o CompressedBody }

\* one call of _decode_name or of parse_request
InitWire ==
    /\ \/ /\ wire_entry = "_decode_name"
          /\ wire_message \in WireMessages
          /\ wire_start \in 0..Len(wire_message)
       \/ /\ wire_entry = "parse_request"
          /\ wire_message \in ParseMessages
          /\ wire_start = DNS_HEADER_BYTES
    /\ wire_pc = "entry"
    /\ wire_offset = 0
    /\ wire_labels = <<>>
    /\ wire_jumped = FALSE
    /\ wire_read_end = 0
    /\ wire_visited = {}
    /\ wire_steps = 0
    /\ wire_reads = {}
    /\ wire_outcome = [kind |-> "pending"]
    /\ runtime_state = ConsistentState(512)
    /\ datagram = <<>>
    /\ handled = FALSE
    /\ result = Dropped
    /\ MappingVarsIdle
    /\ ServeVarsIdle
    /\ CodecVarsIdle
    /\ BudgetVarsIdle
    /\ BuildVarsIdle
    /\ LateVarsIdle

NextWire ==
    \/ WireParseRequestEntry /\ UNCHANGED <<handlerVars, mappingVars, serveVars, codecVars, budgetVars, buildVars, lateVars>>
    \/ WireDecodeNameEntry /\ UNCHANGED <<handlerVars, mappingVars, serveVars, codecVars, budgetVars, buildVars, lateVars>>
    \/ WireDecodeNameStep /\ UNCHANGED <<handlerVars, mappingVars, serveVars, codecVars, budgetVars, buildVars, lateVars>>
    \/ WireQuestionTail /\ UNCHANGED <<handlerVars, mappingVars, serveVars, codecVars, budgetVars, buildVars, lateVars>>

SpecWire == InitWire /\ [][NextWire]_vars

\* the process finishes under weak fairness of its steps
FairSpecWire == SpecWire /\ WF_vars(NextWire)

(***************************************************************************)
(* Vocabulary of the properties: the request as parsed, the steps of       *)
(* section 4.5 of the specification as predicates on it, and the fields    *)
(* of the response read back from its bytes.                               *)
(***************************************************************************)
Req == parse_request(datagram)
Cfg == runtime_state.config
Parsed == handled /\ Req.ok
Answer == handled /\ ~result.dropped

QrSet == Req.flags >= 32768
OpcodeIsQuery == (Req.flags \div 2048) % 16 = 0
SectionCountsValid == Req.qdcount = 1 /\ Req.ancount = 0 /\ Req.nscount = 0
AdditionalCountValid ==
    IF Cfg.dns_edns_size = 512 THEN Req.arcount = 0 ELSE Req.arcount <= 1
EnvelopeValid ==
    Parsed /\ ~QrSet /\ OpcodeIsQuery /\ SectionCountsValid /\ AdditionalCountValid

QuestionIsAIn ==
    Req.question.qtype = DNS_QTYPE_A /\ Req.question.qclass = DNS_QCLASS_IN
QName == Req.question.qname_labels

DomainIndexes == 1..Len(Cfg.domain_labels_by_domain)
DomainLabels(d) == Cfg.domain_labels_by_domain[d]
EndsWithDomain(d) ==
    /\ Len(DomainLabels(d)) <= Len(QName)
    /\ \A k \in 1..Len(DomainLabels(d)) :
         QName[Len(QName) - Len(DomainLabels(d)) + k] = DomainLabels(d)[k]
PrefixBefore(d) == SubSeq(QName, 1, Len(QName) - Len(DomainLabels(d)))

\* the request reaches the domain step and matches the configured domain d
UnderDomain(d) == EnvelopeValid /\ QuestionIsAIn /\ EndsWithDomain(d)
NoConfiguredDomain ==
    EnvelopeValid /\ QuestionIsAIn /\ \A d \in DomainIndexes : ~EndsWithDomain(d)

EndsInResponseLabel(d) ==
    /\ PrefixBefore(d) # <<>>
    /\ PrefixBefore(d)[Len(PrefixBefore(d))] = Cfg.response_label

\* a slice-shaped request (slice_token, file_tag) before the domain d
SliceShaped(d) == UnderDomain(d) /\ Len(PrefixBefore(d)) = 2
SliceToken(d) == PrefixBefore(d)[1]
FileTag(d) == PrefixBefore(d)[2]
LookupKey(d) == <<FileTag(d), SliceToken(d)>>
KeyKnown(d) == LookupKey(d) \in DOMAIN runtime_state.lookup_by_key
Identity(d) == runtime_state.lookup_by_key[LookupKey(d)]
IdentityPair(d) == <<Identity(d)[1], Identity(d)[2]>>
SliceTable(d) == runtime_state.slice_bytes_by_identity[IdentityPair(d)]
Meta(d) == runtime_state.publish_meta_by_identity[IdentityPair(d)]

StateConsistentFor(d) ==
    /\ IdentityPair(d) \in DOMAIN runtime_state.slice_bytes_by_identity
    /\ Identity(d)[3] >= 0 /\ Identity(d)[3] < Len(SliceTable(d))
    /\ IdentityPair(d) \in DOMAIN runtime_state.publish_meta_by_identity
    /\ Meta(d)[1] = Len(SliceTable(d))

ExpectedRecord(d) ==
    build_slice_record(Cfg.psk, Identity(d)[1], Identity(d)[2], Identity(d)[3],
                       Meta(d)[1], Meta(d)[2], SliceTable(d)[Identity(d)[3] + 1])

RespFlags == UnpackU16(result.response, 2)
RespRcode == RespFlags % 16
RespAncount == UnpackU16(result.response, 6)
RespArcount == UnpackU16(result.response, 10)
Classification == result.log.classification
Reason == result.log.reason_code

\* the answer record, which follows the echoed question
AnswerOffset == DNS_HEADER_BYTES + Len(encode_name(QName)) + 4
AnswerType == UnpackU16(result.response, AnswerOffset + 2)
AnswerRdLength == UnpackU16(result.response, AnswerOffset + 10)
AnswerRdata ==
    SubSeq(result.response, AnswerOffset + 13, AnswerOffset + 12 + AnswerRdLength)
AnswerEnd == AnswerOffset + 12 + AnswerRdLength
OptBytes == IF Cfg.dns_edns_size > 512 THEN 11 ELSE 0

RECURSIVE JoinLabels(_)
JoinLabels(labels) ==
    IF labels = <<>> THEN <<>> ELSE Head(labels) \o JoinLabels(Tail(labels))

\* the CNAME target, with its compression pointer followed
CnameTarget == _decode_name(result.response, AnswerOffset + 12)

\* the record carried by the payload labels of the CNAME target for domain d
CarriedRecord(d) ==
    base32_decode_no_pad(
        JoinLabels(SubSeq(CnameTarget.labels, 1,
                          Len(CnameTarget.labels) - 1 - Len(DomainLabels(d)))))

OneCnameAnswerCarrying(d, record) ==
    /\ RespAncount = 1
    /\ AnswerType = DNS_QTYPE_CNAME
    /\ Len(result.response) = AnswerEnd + OptBytes
    /\ CnameTarget.ok
    /\ CnameTarget.next_offset = AnswerEnd
    /\ Len(CnameTarget.labels) >= 2 + Len(DomainLabels(d))
    /\ SubSeq(CnameTarget.labels,
              Len(CnameTarget.labels) - Len(DomainLabels(d)),
              Len(CnameTarget.labels)) = <<Cfg.response_label>> \o DomainLabels(d)
    /\ CarriedRecord(d).ok
    /\ CarriedRecord(d).value = record

OneSyntheticAAnswer ==
    /\ RespAncount = 1
    /\ AnswerType = DNS_QTYPE_A
    /\ AnswerRdLength = 4
    /\ AnswerRdata = <<0, 0, 0, 0>>
    /\ Len(result.response) = AnswerEnd + OptBytes

NoAnswerRecord ==
    /\ RespAncount = 0
    /\ Len(result.response)
         = DNS_HEADER_BYTES
           + (IF Req.question.present THEN Len(encode_name(QName)) + 4 ELSE 0)
           + OptBytes

(***************************************************************************)
(* C1: a well-formed A/IN request for a mapped (slice_token, file_tag)     *)
(* under a configured domain, in a state whose slice table and metadata    *)
(* are consistent and whose slice record can be built, is answered         *)
(* NOERROR with exactly one CNAME answer whose payload labels decode to    *)
(* build_slice_record(...) of the looked-up slice, and the event is        *)
(* `served` with the file_id, publish_version and slice_index of the       *)
(* lookup value.                                                           *)
(***************************************************************************)
ServableSlice(d) ==
    /\ SliceShaped(d)
    /\ KeyKnown(d)
    /\ StateConsistentFor(d)
    /\ ExpectedRecord(d).ok

C1_ServedSliceRecord ==
    \A d \in DomainIndexes :
      ServableSlice(d) =>
        /\ ~result.dropped
        /\ RespRcode = DNS_RCODE_NOERROR
        /\ OneCnameAnswerCarrying(d, ExpectedRecord(d).value)
        /\ Classification = "served"
        /\ result.log.file_id = Identity(d)[1]
        /\ result.log.publish_version = Identity(d)[2]
        /\ result.log.slice_index = Identity(d)[3]

\* the second slice of the file is served
C1_Witness ==
    /\ Parsed
    /\ \E d \in DomainIndexes : ServableSlice(d) /\ Identity(d)[3] = 1
    /\ Classification = "served"

(***************************************************************************)
(* C2: whenever apply_mapping returns, every (file_tag, slice_token) pair  *)
(* of the returned entries is globally unique, and within each entry the   *)
(* slice tokens are pairwise distinct.                                     *)
(***************************************************************************)
TokenPositions ==
    UNION { { <<i, k>> : k \in 1..Len(entries[i].slice_tokens) } :
            i \in 1..Len(entries) }

MappedKey(pos) == <<entries[pos[1]].file_tag, entries[pos[1]].slice_tokens[pos[2]]>>

C2_MappingUnique ==
    mapping_pc = "returned" =>
      /\ \A p, q \in TokenPositions : p # q => MappedKey(p) # MappedKey(q)
      /\ \A i \in 1..Len(entries) :
           /\ Len(entries[i].slice_tokens) = entries[i].total_slices
           /\ Cardinality({entries[i].slice_tokens[k] : k \in 1..entries[i].total_slices})
                = entries[i].total_slices

\* a batch of two files with the same file_tag returned after a promotion
C2_Witness ==
    /\ mapping_pc = "returned"
    /\ Len(entries) = 2
    /\ entries[1].file_tag = entries[2].file_tag
    /\ \E i \in 1..2 :
         entries[i].slice_token_len >
           _find_min_local_len(mapping_config.mapping_seed, entries[i].publish_version,
                               entries[i].total_slices, max_len_by_index[i]).token_len

(***************************************************************************)
(* C3: the outcome is that of the first matching step of the order parse,  *)
(* envelope, qtype/qclass, domain, follow-up, slice shape, lookup, runtime *)
(* consistency, encode.  A step is reported whatever the later steps       *)
(* would have found: an envelope reject keeps the envelope reason for an   *)
(* unknown (file_tag, slice_token), and a prefix of at least two labels    *)
(* ending in response_label is a follow-up whatever the lookup holds.      *)
(***************************************************************************)
EnvelopeReason ==
    IF QrSet THEN "invalid_query_flags"
    ELSE IF ~OpcodeIsQuery THEN "unsupported_opcode"
    ELSE IF ~SectionCountsValid THEN "invalid_query_section_counts"
    ELSE "invalid_additional_count"

FaultReason(d) ==
    IF IdentityPair(d) \notin DOMAIN runtime_state.slice_bytes_by_identity
    THEN "identity_missing"
    ELSE IF Identity(d)[3] < 0 \/ Identity(d)[3] >= Len(SliceTable(d))
    THEN "slice_index_out_of_bounds"
    ELSE IF IdentityPair(d) \notin DOMAIN runtime_state.publish_meta_by_identity
    THEN "publish_meta_missing"
    ELSE IF Meta(d)[1] # Len(SliceTable(d))
    THEN "slice_table_length_mismatch"
    ELSE IF ~ExpectedRecord(d).ok THEN "encode_failure"
    ELSE "slice_served"

StepUnderDomain(d) ==
    IF Len(PrefixBefore(d)) >= 2 /\ EndsInResponseLabel(d) THEN "followup_a_response"
    ELSE IF Len(PrefixBefore(d)) # 2 THEN "invalid_slice_qname_shape"
    ELSE IF ~KeyKnown(d) THEN "mapping_not_found"
    ELSE FaultReason(d)

FirstMatchingStep ==
    IF ~EnvelopeValid THEN EnvelopeReason
    ELSE IF ~QuestionIsAIn THEN "unsupported_qtype_or_class"
    ELSE IF \A d \in DomainIndexes : ~EndsWithDomain(d) THEN "unknown_domain"
    ELSE StepUnderDomain(CHOOSE d \in DomainIndexes : EndsWithDomain(d))

C3_FirstMatchWins ==
    handled =>
      /\ result.dropped <=> ~Req.ok
      /\ Req.ok => Reason = FirstMatchingStep

\* a request rejected for its envelope although its (file_tag, slice_token)
\* is unknown to the lookup
C3_Witness ==
    /\ Parsed
    /\ ~EnvelopeValid /\ Req.question.present /\ QuestionIsAIn
    /\ \E d \in DomainIndexes :
         EndsWithDomain(d) /\ Len(PrefixBefore(d)) = 2 /\ ~KeyKnown(d)
    /\ Reason = EnvelopeReason

\* C3 as stated: every prefix ending in response_label is a follow-up
C3_Original ==
    \A d \in DomainIndexes :
      (UnderDomain(d) /\ EndsInResponseLabel(d)) => Classification = "followup"

(***************************************************************************)
(* C4: the envelope checks run in the order QR bit, opcode, section        *)
(* counts, additional count (0 required at dns_edns_size 512, at most 1    *)
(* otherwise); the reason is that of the first failing check and every     *)
(* envelope reject is NXDOMAIN, classification miss, no answer record.     *)
(***************************************************************************)
C4_EnvelopeOrder ==
    Parsed =>
      /\ QrSet => Reason = "invalid_query_flags"
      /\ (~QrSet /\ ~OpcodeIsQuery) => Reason = "unsupported_opcode"
      /\ (~QrSet /\ OpcodeIsQuery /\ ~SectionCountsValid)
           => Reason = "invalid_query_section_counts"
      /\ (~QrSet /\ OpcodeIsQuery /\ SectionCountsValid /\ ~AdditionalCountValid)
           => Reason = "invalid_additional_count"
      /\ ~EnvelopeValid =>
           /\ RespRcode = DNS_RCODE_NXDOMAIN
           /\ Classification = "miss"
           /\ NoAnswerRecord
      /\ EnvelopeValid =>
           Reason \notin {"invalid_query_flags", "unsupported_opcode",
                          "invalid_query_section_counts", "invalid_additional_count"}

\* a request failing all four checks at once is reported for its QR bit
C4_Witness ==
    /\ Parsed
    /\ QrSet /\ ~OpcodeIsQuery /\ ~SectionCountsValid /\ ~AdditionalCountValid
    /\ Reason = "invalid_query_flags"
    /\ RespRcode = DNS_RCODE_NXDOMAIN

(***************************************************************************)
(* C5: when parse_request fails on a received datagram, whatever its       *)
(* header flags, handle_request_message returns no response and no event,  *)
(* and the serve loop sends nothing, emits nothing, counts the datagram as *)
(* dropped and stays in the loop.                                          *)
(***************************************************************************)
UnparseableReceived ==
    /\ iterations' = iterations + 1
    /\ last_receive' = "datagram"
    /\ ~parse_request(datagram').ok

C5_ParseFailureDropped ==
    [][UnparseableReceived =>
         /\ result' = Dropped
         /\ sent' = sent
         /\ emitted' = emitted
         /\ counters' = [counters EXCEPT !.dropped = @ + 1]
         /\ serve_pc' = "loop"
         /\ sock' = "open"
         /\ stop_state' = stop_state]_vars

\* of two received datagrams one failed to parse and was dropped and the
\* other was served a slice
C5_Witness ==
    /\ serve_pc = "loop"
    /\ iterations = 2
    /\ counters = [ZeroCounters EXCEPT !.dropped = 1, !.served = 1]
    /\ last_receive = "datagram"
    /\ ~result.dropped
    /\ Len(sent) = 1
    /\ runtime_state.config.dns_edns_size = 1232

(***************************************************************************)
(* C6: a slice-shaped A/IN request with a valid envelope whose file_tag is *)
(* not response_label and whose (file_tag, slice_token) is not a key of    *)
(* the lookup is answered NXDOMAIN with no answer, classification miss,    *)
(* reason mapping_not_found.                                               *)
(***************************************************************************)
MappingMissOutcome ==
    /\ RespRcode = DNS_RCODE_NXDOMAIN
    /\ NoAnswerRecord
    /\ Classification = "miss"
    /\ Reason = "mapping_not_found"

C6_MappingNotFound ==
    \A d \in DomainIndexes :
      (SliceShaped(d) /\ ~KeyKnown(d) /\ FileTag(d) # Cfg.response_label)
        => MappingMissOutcome

\* a known file_tag with an unknown slice_token
C6_Witness ==
    /\ Parsed
    /\ \E d \in DomainIndexes :
         /\ SliceShaped(d) /\ ~KeyKnown(d)
         /\ \E k \in DOMAIN runtime_state.lookup_by_key : k[1] = FileTag(d)
    /\ Reason = "mapping_not_found"

\* C6 as stated: every two-label prefix with an unknown key
C6_Original ==
    \A d \in DomainIndexes : (SliceShaped(d) /\ ~KeyKnown(d)) => MappingMissOutcome

(***************************************************************************)
(* C7: an A/IN request with a valid envelope under a configured domain     *)
(* whose prefix has at least two labels, the last equal to response_label, *)
(* is answered NOERROR with exactly one synthetic A answer 0.0.0.0,        *)
(* classification followup, reason followup_a_response.                    *)
(***************************************************************************)
FollowupOutcome ==
    /\ RespRcode = DNS_RCODE_NOERROR
    /\ OneSyntheticAAnswer
    /\ Classification = "followup"
    /\ Reason = "followup_a_response"

C7_Followup ==
    \A d \in DomainIndexes :
      (UnderDomain(d) /\ EndsInResponseLabel(d) /\ Len(PrefixBefore(d)) >= 2)
        => FollowupOutcome

\* a follow-up with three labels before the domain
C7_Witness ==
    /\ Parsed
    /\ \E d \in DomainIndexes :
         UnderDomain(d) /\ EndsInResponseLabel(d) /\ Len(PrefixBefore(d)) = 3
    /\ Classification = "followup"

\* C7 as stated: any non-empty prefix ending in response_label
C7_Original ==
    \A d \in DomainIndexes :
      (UnderDomain(d) /\ EndsInResponseLabel(d)) => FollowupOutcome

(***************************************************************************)
(* C8: when the lookup key resolves but the identity is missing from the   *)
(* slice table, the slice index is out of range, the metadata is missing,  *)
(* total_slices differs from the slice table length, or the payload or     *)
(* answer encoding raises, the response is SERVFAIL with no answer and the *)
(* event is runtime_fault.                                                 *)
(***************************************************************************)
EncodingRaises(d) ==
    \/ ~payload_labels_for_slice(Cfg.psk, Identity(d)[1], Identity(d)[2],
                                 Identity(d)[3], Meta(d)[1], Meta(d)[2],
                                 SliceTable(d)[Identity(d)[3] + 1],
                                 Cfg.dns_max_label_len).ok
    \/ ~NameEncodable(<<Cfg.response_label>>)
    \/ Cfg.ttl < 0

ResolvedButFaulty(d) ==
    /\ SliceShaped(d) /\ FileTag(d) # Cfg.response_label /\ KeyKnown(d)
    /\ (~StateConsistentFor(d) \/ EncodingRaises(d))

C8_RuntimeFault ==
    \A d \in DomainIndexes :
      ResolvedButFaulty(d) =>
        /\ RespRcode = DNS_RCODE_SERVFAIL
        /\ NoAnswerRecord
        /\ Classification = "runtime_fault"

\* a consistent state whose slice cannot be encoded
C8_Witness ==
    /\ Parsed
    /\ \E d \in DomainIndexes :
         ResolvedButFaulty(d) /\ StateConsistentFor(d) /\ EncodingRaises(d)
    /\ Classification = "runtime_fault"
    /\ Reason = "encode_failure"

(***************************************************************************)
(* C9: a request with a valid envelope whose qtype is not A or whose       *)
(* qclass is not IN is answered NOERROR with no answer, classification     *)
(* miss.                                                                   *)
(***************************************************************************)
C9_QtypeMissIsNoError ==
    (EnvelopeValid /\ ~QuestionIsAIn) =>
      /\ RespRcode = DNS_RCODE_NOERROR
      /\ NoAnswerRecord
      /\ Classification = "miss"

(***************************************************************************)
(* C10: an A/IN request with a valid envelope whose name has no configured *)
(* domain as a label suffix is answered NOERROR, classification miss,      *)
(* reason unknown_domain.                                                  *)
(***************************************************************************)
C10_UnknownDomainIsNoError ==
    NoConfiguredDomain =>
      /\ RespRcode = DNS_RCODE_NOERROR
      /\ Classification = "miss"
      /\ Reason = "unknown_domain"

(***************************************************************************)
(* C11: an A/IN request with a valid envelope under a configured domain    *)
(* that is not a follow-up and whose prefix before the domain is not       *)
(* exactly two labels is answered NOERROR, classification miss, reason     *)
(* invalid_slice_qname_shape, and is not served.                           *)
(***************************************************************************)
IsFollowup(d) == _is_followup_query(PrefixBefore(d), Cfg.response_label)

C11_OtherShapeIsNoErrorMiss ==
    \A d \in DomainIndexes :
      (UnderDomain(d) /\ ~IsFollowup(d) /\ Len(PrefixBefore(d)) # 2) =>
        /\ Classification # "served"
        /\ RespRcode = DNS_RCODE_NOERROR
        /\ Classification = "miss"
        /\ Reason = "invalid_slice_qname_shape"

(***************************************************************************)
(* C12: no received datagram ends the receive loop of serve_runtime.  An   *)
(* iteration that receives a datagram, whether handle_request_message      *)
(* returns or raises, sends at most one response, leaves the stop state    *)
(* alone and stays in the loop with the socket open; and the loop is left  *)
(* only with the stop flag set by a signal, the stop callback or a         *)
(* keyboard interrupt.                                                     *)
(***************************************************************************)
DatagramReceived ==
    /\ iterations' = iterations + 1
    /\ last_receive' \in {"datagram", "handler_raised"}

DroppedOrAnswered ==
    \/ sent' = sent
    \/ /\ Len(sent') = Len(sent) + 1
       /\ SubSeq(sent', 1, Len(sent)) = sent
       /\ Len(sent'[Len(sent')]) >= DNS_HEADER_BYTES

StopReasons == {"signal_2", "signal_15", "stop_callback", "keyboard_interrupt"}

C12_DatagramNeverEndsLoop ==
    [][/\ DatagramReceived =>
            /\ serve_pc = "loop" /\ serve_pc' = "loop"
            /\ sock' = "open"
            /\ stop_state' = stop_state
            /\ serve_error' = NoStartupError
            /\ DroppedOrAnswered
       /\ (serve_pc = "loop" /\ serve_pc' # "loop") =>
            /\ stop_state'.stop
            /\ stop_state'.reason \in StopReasons
            /\ serve_pc' \in {"exiting", "returned"}]_vars

\* a request answered with a miss, then a request whose handling raised and
\* was answered by the SERVFAIL fallback, and the loop still running
C12_Witness ==
    /\ serve_pc = "loop"
    /\ iterations = 2
    /\ last_receive = "handler_raised"
    /\ Len(sent) = 2
    /\ counters.miss = 1
    /\ counters.runtime_fault = 2
    /\ ~stop_state.stop

(***************************************************************************)
(* C13: _decode_name terminates on every message and start offset.  The    *)
(* while loop begins at most Len(message) + 1 iterations, a name whose     *)
(* first bytes are a pointer to itself fails with DnsParseError in its     *)
(* second iteration, and every call ends by returning or raising.          *)
(***************************************************************************)
WireDone == wire_pc \in {"returned", "raised"}

\* the name starts with a compression pointer whose target is its own offset
SelfPointer ==
    /\ wire_entry = "_decode_name"
    /\ wire_start + 1 < Len(wire_message)
    /\ ReadByte(wire_message, wire_start) >= DNS_POINTER_TAG
    /\ (ReadByte(wire_message, wire_start) % 64) * 256
         + ReadByte(wire_message, wire_start + 1) = wire_start

DecodeNameBounded ==
    /\ wire_steps <= Len(wire_message) + 1
    /\ (SelfPointer /\ WireDone) =>
         /\ wire_outcome = RaisedError("DnsParseError")
         /\ wire_steps = 2
    /\ (SelfPointer /\ ~WireDone) => wire_steps < 2

C13_DecodeNameTerminates == []DecodeNameBounded /\ <>WireDone

\* a pointer cycle through a label: the label at offset 0 is read twice
\* before the pointer at offset 2 finds its target visited
C13_Witness ==
    /\ wire_entry = "_decode_name"
    /\ wire_message = <<1, 65, 192, 0>>
    /\ wire_start = 0
    /\ wire_steps = 4
    /\ wire_visited = {0}
    /\ wire_outcome = RaisedError("DnsParseError")

(***************************************************************************)
(* C14: parse_request on any byte string returns a request or raises       *)
(* DnsParseError and nothing else, and no step of it (nor of _decode_name) *)
(* reads the message at an offset at or past its end: not when advancing   *)
(* over labels, at a pointer target, at the second byte of a pointer, or   *)
(* at the four bytes of qtype and qclass.                                  *)
(***************************************************************************)
C14_ParseReadsInBounds ==
    /\ \A o \in wire_reads : 0 <= o /\ o < Len(wire_message)
    /\ wire_pc = "raised" => wire_outcome = RaisedError("DnsParseError")
    /\ wire_pc = "returned" => wire_outcome.kind = "returned" /\ wire_outcome.value.ok
    /\ (wire_pc = "returned" /\ wire_entry = "parse_request") =>
         wire_outcome.value = parse_request(wire_message)

\* a question that ends in the first byte of a pointer: the byte at offset
\* 12 is read, the one after it is not, and the call raises DnsParseError
C14_Witness ==
    /\ wire_entry = "parse_request"
    /\ Len(wire_message) = DNS_HEADER_BYTES + 1
    /\ wire_message[DNS_HEADER_BYTES + 1] = DNS_POINTER_TAG
    /\ wire_reads = {DNS_HEADER_BYTES}
    /\ wire_outcome = RaisedError("DnsParseError")

(***************************************************************************)
(* dnswire.py: parse_message, the response parser of the client            *)
(***************************************************************************)
UnpackU32(message, offset) == UnpackU16(message, offset) * 65536 + UnpackU16(message, offset + 2)

\* the questions of a message, decoded one after the other from offset
RECURSIVE DecodeQuestions(_, _, _)
DecodeQuestions(message, offset, count) ==
    IF count = 0 THEN [ok |-> TRUE, questions |-> <<>>, next_offset |-> offset]
    ELSE
      LET decoded == _decode_question(message, offset) IN
      IF ~decoded.ok THEN DnsParseError
      ELSE
        LET rest == DecodeQuestions(message, _decode_name(message, offset).next_offset + 4,
                                    count - 1)
        IN IF ~rest.ok THEN DnsParseError
           ELSE [ok |-> TRUE, questions |-> <<decoded.question>> \o rest.questions,
                 next_offset |-> rest.next_offset]

\* cname_labels is None unless the record is a CNAME (has_cname)
_decode_resource_record(message, start_offset) ==
    LET name == _decode_name(message, start_offset) IN
    IF ~name.ok THEN DnsParseError
    ELSE IF name.next_offset + 10 > Len(message) THEN DnsParseError
    ELSE
      LET offset == name.next_offset
          rtype == UnpackU16(message, offset)
          rdata_offset == offset + 10
          rdata_end == rdata_offset + UnpackU16(message, offset + 8)
      IN IF rdata_end > Len(message) THEN DnsParseError
         ELSE
           LET cname == IF rtype = DNS_QTYPE_CNAME
                        THEN _decode_name(message, rdata_offset)
                        ELSE [ok |-> TRUE, labels |-> <<>>, next_offset |-> rdata_end]
           IN IF ~cname.ok THEN DnsParseError
              ELSE IF cname.next_offset # rdata_end THEN DnsParseError
              ELSE [ok |-> TRUE,
                    record |-> [name_labels |-> name.labels,
                                type |-> rtype,
                                class |-> UnpackU16(message, offset + 2),
                                ttl |-> UnpackU32(message, offset + 4),
                                rdata |-> SubSeq(message, rdata_offset + 1, rdata_end),
                                has_cname |-> rtype = DNS_QTYPE_CNAME,
                                cname_labels |-> cname.labels],
                    next_offset |-> rdata_end]

RECURSIVE _decode_resource_records(_, _, _)
_decode_resource_records(message, start_offset, count) ==
    IF count = 0 THEN [ok |-> TRUE, records |-> <<>>, next_offset |-> start_offset]
    ELSE
      LET first == _decode_resource_record(message, start_offset) IN
      IF ~first.ok THEN DnsParseError
      ELSE
        LET rest == _decode_resource_records(message, first.next_offset, count - 1) IN
        IF ~rest.ok THEN DnsParseError
        ELSE [ok |-> TRUE, records |-> <<first.record>> \o rest.records,
              next_offset |-> rest.next_offset]

\* each section is decoded once: the set constructors bind its value
parse_message(message) ==
    IF Len(message) < DNS_HEADER_BYTES THEN DnsParseError
    ELSE
      CHOOSE outcome \in
        { IF ~questions.ok THEN DnsParseError
          ELSE
            CHOOSE with_answers \in
              { IF ~answers.ok THEN DnsParseError
                ELSE
                  CHOOSE with_authorities \in
                    { IF ~authorities.ok THEN DnsParseError
                      ELSE
                        CHOOSE with_additionals \in
                          { IF ~additionals.ok THEN DnsParseError
                            ELSE IF additionals.next_offset # Len(message)
                            THEN DnsParseError
                            ELSE
                              LET flags == UnpackU16(message, 2) IN
                              [ok |-> TRUE,
                               id |-> UnpackU16(message, 0),
                               flags |-> flags,
                               opcode |-> ((flags \div 2048) % 16) * 2048,
                               rcode |-> flags % 16,
                               questions |-> questions.questions,
                               answers |-> answers.records,
                               authorities |-> authorities.records,
                               additionals |-> additionals.records] :
                            additionals \in
                              {_decode_resource_records(message, authorities.next_offset,
                                                        UnpackU16(message, 10))} } : TRUE :
                      authorities \in
                        {_decode_resource_records(message, answers.next_offset,
                                                  UnpackU16(message, 8))} } : TRUE :
                answers \in
                  {_decode_resource_records(message, questions.next_offset,
                                            UnpackU16(message, 6))} } : TRUE :
          questions \in
            {DecodeQuestions(message, DNS_HEADER_BYTES, UnpackU16(message, 4))} } : TRUE

(***************************************************************************)
(* client_payload.py.  compute_slice_mac and decrypt_slice_ciphertext are  *)
(* called on cname_payload but not defined by it: they follow sections     *)
(* 4.4 (2) and (3) of the specification.                                   *)
(***************************************************************************)
ClientParseError(reason_code) == [ok |-> FALSE, error |-> "ClientParseError", reason_code |-> reason_code]

ClientCryptoError(reason_code) == [ok |-> FALSE, error |-> "ClientCryptoError", reason_code |-> reason_code]

\* mac = HMAC-SHA256(mac_key, "dnsdle-mac-msg-v1|" + file_id + "|" +
\* publish_version + "|" + slice_index + "|" + total_slices + "|" +
\* compressed_size + "|" + ciphertext)[:8]
compute_slice_mac(psk, file_id, publish_version, slice_index, total_slices, compressed_size, ciphertext) ==
    SubSeq(hmac_sha256(hmac_sha256(psk, PAYLOAD_MAC_KEY_LABEL \o file_id
                                        \o <<124>> \o publish_version),
                       PAYLOAD_MAC_MESSAGE_LABEL
                       \o file_id \o <<124>> \o publish_version
                       \o <<124>> \o AsciiDigits(slice_index)
                       \o <<124>> \o AsciiDigits(total_slices)
                       \o <<124>> \o AsciiDigits(compressed_size)
                       \o <<124>> \o ciphertext),
           1, PAYLOAD_MAC_TRUNC_LEN)

\* plaintext = ciphertext XOR keystream, the keystream that of the server
decrypt_slice_ciphertext(psk, file_id, publish_version, slice_index, ciphertext) ==
    _xor_bytes(ciphertext,
               _keystream_bytes(hmac_sha256(psk, PAYLOAD_ENC_KEY_LABEL \o file_id
                                                 \o <<124>> \o publish_version),
                                file_id, publish_version, slice_index, Len(ciphertext)))

_is_suffix(suffix_labels, labels) ==
    /\ Len(suffix_labels) <= Len(labels)
    /\ SubSeq(labels, Len(labels) - Len(suffix_labels) + 1, Len(labels)) = suffix_labels

_extract_payload_labels(cname_labels, response_label, selected_domain_labels) ==
    LET suffix == <<response_label>> \o selected_domain_labels IN
    IF ~_is_suffix(suffix, cname_labels) THEN ClientParseError("cname_suffix_mismatch")
    ELSE IF Len(cname_labels) = Len(suffix) THEN ClientParseError("missing_payload_labels")
    ELSE Return(SubSeq(cname_labels, 1, Len(cname_labels) - Len(suffix)))

RECURSIVE JoinText(_)
JoinText(labels) ==
    IF labels = <<>> THEN <<>> ELSE Head(labels) \o JoinText(Tail(labels))

_decode_payload_record_bytes(payload_labels) ==
    LET decoded == base32_decode_no_pad(JoinText(payload_labels)) IN
    IF ~decoded.ok THEN ClientParseError("invalid_payload_base32") ELSE decoded

parse_payload_record(record_bytes) ==
    IF Len(record_bytes) <= 4 + PAYLOAD_MAC_TRUNC_LEN THEN ClientParseError("record_too_short")
    ELSE
      LET cipher_len == UnpackU16(record_bytes, 2) IN
      IF record_bytes[1] # PAYLOAD_PROFILE_V1_BYTE THEN ClientParseError("unsupported_profile")
      ELSE IF record_bytes[2] # PAYLOAD_FLAGS_V1_BYTE THEN ClientParseError("unsupported_flags")
      ELSE IF cipher_len <= 0 THEN ClientParseError("invalid_cipher_len")
      ELSE IF Len(record_bytes) # 4 + cipher_len + PAYLOAD_MAC_TRUNC_LEN
      THEN ClientParseError("record_length_mismatch")
      ELSE Return([profile |-> record_bytes[1],
                   flags |-> record_bytes[2],
                   cipher_len |-> cipher_len,
                   ciphertext |-> SubSeq(record_bytes, 5, 4 + cipher_len),
                   mac_trunc |-> SubSeq(record_bytes, 5 + cipher_len, Len(record_bytes))])

\* variant: the record is decrypted without comparing the MAC
verify_and_decrypt_record_Unverified(parsed_record, psk, file_id, publish_version, slice_index, total_slices, compressed_size) ==
    Return(decrypt_slice_ciphertext(psk, file_id, publish_version, slice_index,
                                    parsed_record.ciphertext))

verify_and_decrypt_record(parsed_record, psk, file_id, publish_version, slice_index, total_slices, compressed_size) ==
    IF parsed_record.mac_trunc # compute_slice_mac(psk, file_id, publish_version, slice_index,
                                                   total_slices, compressed_size,
                                                   parsed_record.ciphertext)
    THEN ClientCryptoError("mac_mismatch")
    ELSE Return(decrypt_slice_ciphertext(psk, file_id, publish_version, slice_index,
                                         parsed_record.ciphertext))

\* the cname_labels of the answers that are IN CNAME records owned by the
\* request name, in answer order
RECURSIVE MatchingAnswers(_, _)
MatchingAnswers(answers, request_qname_labels) ==
    IF answers = <<>> THEN <<>>
    ELSE
      LET answer == Head(answers)
          rest == MatchingAnswers(Tail(answers), request_qname_labels)
      IN IF answer.type # DNS_QTYPE_CNAME \/ answer.class # DNS_QCLASS_IN THEN rest
         ELSE IF answer.name_labels # request_qname_labels THEN rest
         ELSE <<answer.cname_labels>> \o rest

extract_response_cname_labels(response_message, request_id, request_qname_labels, request_qtype, request_qclass) ==
    \* parsed = dnswire.parse_message(message), evaluated once
    CHOOSE outcome \in
      { IF ~parsed.ok THEN ClientParseError("dns_parse_error")
        ELSE IF ~HasBit(parsed.flags, 15) THEN ClientParseError("response_not_qr")
        ELSE IF HasBit(parsed.flags, 9) THEN ClientParseError("response_truncated")
        ELSE IF parsed.opcode # DNS_OPCODE_QUERY
        THEN ClientParseError("response_opcode_invalid")
        ELSE IF parsed.id # request_id THEN ClientParseError("response_id_mismatch")
        ELSE IF parsed.rcode # DNS_RCODE_NOERROR
        THEN ClientParseError("response_rcode_invalid")
        ELSE IF Len(parsed.questions) # 1
        THEN ClientParseError("response_question_count_invalid")
        ELSE
          LET question == parsed.questions[1] IN
          IF \/ question.qname_labels # request_qname_labels
             \/ question.qtype # request_qtype
             \/ question.qclass # request_qclass
          THEN ClientParseError("response_question_mismatch")
          ELSE
            LET matching_answers == MatchingAnswers(parsed.answers, request_qname_labels) IN
            IF Len(matching_answers) = 0 THEN ClientParseError("required_cname_missing")
            ELSE IF Len(matching_answers) > 1
            THEN ClientParseError("required_cname_ambiguous")
            ELSE Return(matching_answers[1]) :
        parsed \in {parse_message(response_message)} } : TRUE

decode_response_slice(response_message, request_id, request_qname_labels, request_qtype, request_qclass, response_label, selected_domain_labels, psk, file_id, publish_version, slice_index, total_slices, compressed_size) ==
    \* each stage is evaluated once: the set constructors bind its value
    CHOOSE outcome \in
      { IF ~cname_labels.ok THEN cname_labels
        ELSE
          CHOOSE from_labels \in
            { IF ~payload_labels.ok THEN payload_labels
              ELSE
                CHOOSE from_bytes \in
                  { IF ~record_bytes.ok THEN record_bytes
                    ELSE
                      CHOOSE from_record \in
                        { IF ~parsed_record.ok THEN parsed_record
                          ELSE verify_and_decrypt_record(
                                   parsed_record.value, psk, file_id, publish_version,
                                   slice_index, total_slices, compressed_size) :
                          parsed_record \in {parse_payload_record(record_bytes.value)} } : TRUE :
                    record_bytes \in {_decode_payload_record_bytes(payload_labels.value)} } : TRUE :
              payload_labels \in
                {_extract_payload_labels(cname_labels.value, response_label,
                                         selected_domain_labels)} } : TRUE :
        cname_labels \in
          {extract_response_cname_labels(response_message, request_id,
                                         request_qname_labels, request_qtype,
                                         request_qclass)} } : TRUE

(***************************************************************************)
(* The payload codec as a process: the server builds the slice record of   *)
(* its input; the client verifies the record as built, with one bit of     *)
(* its ciphertext or MAC flipped, or under another context; or the         *)
(* handler serves the record in a CNAME answer and the client decodes the  *)
(* response.                                                               *)
(***************************************************************************)
FileId2 == <<50, 101>>
Version2 == <<98, 56>>

MaxPlaintextLen == 2

PlaintextAlphabet == {0, 255}

\* byte strings of length 0..MaxPlaintextLen; the empty one is rejected
Plaintexts ==
    UNION { [1..n -> PlaintextAlphabet] : n \in 0..MaxPlaintextLen }

\* dns_max_label_len and dns_edns_size of the serving configuration: the
\* shortest label cap without OPT, the longest with it
CodecConfigs ==
    { [dns_max_label_len |-> 16, dns_edns_size |-> 512],
      [dns_max_label_len |-> 63, dns_edns_size |-> 1232] }

\* (slice_index, total_slices); the last two are rejected
SlicePositions == { <<0, 1>>, <<0, 2>>, <<1, 2>>, <<2, 2>>, <<0, 0>> }

CodecInputs ==
    [psk : {Psk},
     file_id : {FileId1, FileId2},
     publish_version : {Version1},
     position : SlicePositions,
     compressed_size : {0, 3},
     slice_bytes : Plaintexts,
     config : CodecConfigs]

\* the context the MAC binds
ContextOf(input) ==
    [file_id |-> input.file_id,
     publish_version |-> input.publish_version,
     slice_index |-> input.position[1],
     total_slices |-> input.position[2],
     compressed_size |-> input.compressed_size]

Contexts ==
    [file_id : {FileId1, FileId2},
     publish_version : {Version1, Version2},
     slice_index : 0..2,
     total_slices : 1..3,
     compressed_size : {3, 4}]

BuildRecordOf(input) ==
    build_slice_record(input.psk, input.file_id, input.publish_version, input.position[1],
                       input.position[2], input.compressed_size, input.slice_bytes)

\* parse_payload_record, then verify_and_decrypt_record under a context
ParseAndVerify(record_bytes, psk, context) ==
    LET parsed_record == parse_payload_record(record_bytes) IN
    IF ~parsed_record.ok THEN parsed_record
    ELSE verify_and_decrypt_record(parsed_record.value, psk, context.file_id,
                                   context.publish_version, context.slice_index,
                                   context.total_slices, context.compressed_size)

\* record_bytes with bit `bit` of the byte at `offset` (0-based) flipped
FlipBit(record_bytes, offset, bit) ==
    [record_bytes EXCEPT ![offset + 1] = XorByte(record_bytes[offset + 1], Pow2(bit))]

CodecRequestLabels == <<L_t0, L_g7, L_ex, L_com>>

CodecRequestBytes ==
    Header(4660, DNS_FLAG_RD, 1, 0, 0, 0)
    \o Question(CodecRequestLabels, DNS_QTYPE_A, DNS_QCLASS_IN)

\* the state build_runtime_state returns when the published slice is that
\* of the input: the other slices of the file are one byte each
CodecRuntimeState(input) ==
    [config |-> [ConfigOf(input.config.dns_edns_size)
                   EXCEPT !.psk = input.psk,
                          !.dns_max_label_len = input.config.dns_max_label_len],
     lookup_by_key |->
         (Key(L_g7, L_t0) :> <<input.file_id, input.publish_version, input.position[1]>>),
     slice_bytes_by_identity |->
         (<<input.file_id, input.publish_version>> :>
             [i \in 1..input.position[2] |->
                 IF i = input.position[1] + 1 THEN input.slice_bytes ELSE <<i>>]),
     publish_meta_by_identity |->
         (<<input.file_id, input.publish_version>> :>
             <<input.position[2], input.compressed_size>>),
     budget_info |-> [query_token_len |-> 2]]

CodecBuild ==
    /\ codec_pc = "start"
    /\ codec_record' = BuildRecordOf(codec_input)
    /\ codec_pc' = IF codec_record'.ok THEN "built" ELSE "rejected"
    /\ UNCHANGED <<codec_input, codec_variant, codec_response, codec_outcome>>

\* the client parses and verifies the record with the inputs it was built from
CodecVerify ==
    /\ codec_pc = "built"
    /\ codec_variant' = [kind |-> "same"]
    /\ codec_outcome' = ParseAndVerify(codec_record.value, codec_input.psk,
                                       ContextOf(codec_input))
    /\ codec_pc' = "verified"
    /\ UNCHANGED <<codec_input, codec_record, codec_response>>

\* one bit of the ciphertext or MAC region differs
CodecVerifyFlipped ==
    /\ codec_pc = "built"
    /\ \E offset \in 4..(Len(codec_record.value) - 1), bit \in 0..7 :
         /\ codec_variant' = [kind |-> "bit", offset |-> offset, bit |-> bit]
         /\ codec_outcome' = ParseAndVerify(FlipBit(codec_record.value, offset, bit),
                                            codec_input.psk, ContextOf(codec_input))
    /\ codec_pc' = "verified"
    /\ UNCHANGED <<codec_input, codec_record, codec_response>>

\* the client verifies under a context other than that of the server
CodecVerifyOther ==
    /\ codec_pc = "built"
    /\ \E context \in Contexts \ {ContextOf(codec_input)} :
         /\ codec_variant' = [kind |-> "context", context |-> context]
         /\ codec_outcome' = ParseAndVerify(codec_record.value, codec_input.psk, context)
    /\ codec_pc' = "verified"
    /\ UNCHANGED <<codec_input, codec_record, codec_response>>

\* handle_request_message serves the slice for the request of the client
CodecServe ==
    /\ codec_pc = "built"
    /\ codec_response' = handle_request_message(CodecRuntimeState(codec_input),
                                                CodecRequestBytes)
    /\ codec_pc' = "served"
    /\ UNCHANGED <<codec_input, codec_record, codec_variant, codec_outcome>>

CodecClientDecode ==
    /\ codec_pc = "served"
    /\ ~codec_response.dropped
    /\ codec_variant' = [kind |-> "cname"]
    /\ codec_outcome' =
           decode_response_slice(codec_response.response, 4660, CodecRequestLabels,
                                 DNS_QTYPE_A, DNS_QCLASS_IN, L_rx, <<L_ex, L_com>>,
                                 codec_input.psk, codec_input.file_id,
                                 codec_input.publish_version, codec_input.position[1],
                                 codec_input.position[2], codec_input.compressed_size)
    /\ codec_pc' = "decoded"
    /\ UNCHANGED <<codec_input, codec_record, codec_response>>

InitCodec ==
    /\ codec_pc = "start"
    /\ codec_input \in CodecInputs
    /\ codec_record = <<>>
    /\ codec_variant = <<>>
    /\ codec_response = <<>>
    /\ codec_outcome = <<>>
    /\ runtime_state = ConsistentState(512)
    /\ datagram = <<>>
    /\ handled = FALSE
    /\ result = Dropped
    /\ MappingVarsIdle
    /\ ServeVarsIdle
    /\ WireVarsIdle
    /\ BudgetVarsIdle
    /\ BuildVarsIdle
    /\ LateVarsIdle

NextCodec ==
    \/ CodecBuild /\ UNCHANGED <<handlerVars, mappingVars, serveVars, wireVars, budgetVars, buildVars, lateVars>>
    \/ CodecVerify /\ UNCHANGED <<handlerVars, mappingVars, serveVars, wireVars, budgetVars, buildVars, lateVars>>
    \/ CodecVerifyFlipped /\ UNCHANGED <<handlerVars, mappingVars, serveVars, wireVars, budgetVars, buildVars, lateVars>>
    \/ CodecVerifyOther /\ UNCHANGED <<handlerVars, mappingVars, serveVars, wireVars, budgetVars, buildVars, lateVars>>
    \/ CodecServe /\ UNCHANGED <<handlerVars, mappingVars, serveVars, wireVars, budgetVars, buildVars, lateVars>>
    \/ CodecClientDecode /\ UNCHANGED <<handlerVars, mappingVars, serveVars, wireVars, budgetVars, buildVars, lateVars>>

SpecCodec == InitCodec /\ [][NextCodec]_vars

(***************************************************************************)
(* C15: for every input build_slice_record accepts, parsing the built      *)
(* record and verifying and decrypting it with the same inputs returns     *)
(* exactly the plaintext, and so does the client when the handler serves   *)
(* the record in a CNAME answer (base32 text split into labels of at most  *)
(* dns_max_label_len characters).                                          *)
(***************************************************************************)
C15_RoundTrip ==
    /\ (codec_pc = "verified" /\ codec_variant.kind = "same") =>
         codec_outcome = Return(codec_input.slice_bytes)
    /\ codec_pc = "served" =>
         /\ ~codec_response.dropped
         /\ codec_response.log.classification = "served"
    /\ codec_pc = "decoded" => codec_outcome = Return(codec_input.slice_bytes)

C15_Witness ==
    /\ codec_pc = "decoded"
    /\ codec_input.slice_bytes = <<0, 255>>
    /\ codec_input.position = <<1, 2>>
    /\ codec_input.config.dns_max_label_len = 16
    /\ Len(parse_message(codec_response.response).answers[1].cname_labels) = 5
    /\ codec_outcome = Return(<<0, 255>>)

(***************************************************************************)
(* C16: verifying a built record with one bit of its ciphertext or MAC     *)
(* region flipped, or under a context that differs in file_id,             *)
(* publish_version, slice_index, total_slices or compressed_size, fails    *)
(* with mac_mismatch and returns no plaintext.                             *)
(***************************************************************************)
C16_TamperIsMacMismatch ==
    (codec_pc = "verified" /\ codec_variant.kind \in {"bit", "context"}) =>
        codec_outcome = ClientCryptoError("mac_mismatch")

C16_Witness ==
    /\ codec_pc = "verified"
    /\ codec_variant.kind = "context"
    /\ codec_variant.context = [ContextOf(codec_input) EXCEPT !.compressed_size = 4]
    /\ codec_input.slice_bytes = <<255, 0>>
    /\ codec_outcome = ClientCryptoError("mac_mismatch")

(***************************************************************************)
(* budget.py                                                               *)
(***************************************************************************)
MAX_DNS_NAME_TEXT_LENGTH == 253
CLASSIC_DNS_PACKET_LIMIT == 512
BINARY_RECORD_OVERHEAD == 12
QUESTION_FIXED_BYTES == 4
ANSWER_FIXED_BYTES == 12
OPT_RR_BYTES == 11
BASE32_BITS_PER_CHAR == 5
BITS_PER_BYTE == 8

dns_name_wire_length(labels) == 1 + LabelsWireSum(labels)

_payload_labels_for_chars(char_count, label_cap) ==
    IF char_count <= 0 THEN <<>>
    ELSE [k \in 1..((char_count + label_cap - 1) \div label_cap) |->
            Repeated(97, Min(label_cap, char_count - (k - 1) * label_cap))]

BudgetUnusable(message) == [ok |-> FALSE, error |-> StartupError("budget", "budget_unusable"), message |-> message]

\* ("a" * query_token_len, "b" * config.file_tag_len) + _domain_labels(config)
BudgetQnameLabels(config, query_token_len) ==
    <<Repeated(97, query_token_len), Repeated(98, config.file_tag_len)>>
    \o config.longest_domain_labels

_validate_query_token_len(config, query_token_len) ==
    IF query_token_len <= 0 THEN BudgetUnusable("query token length must be positive")
    ELSE IF query_token_len > config.dns_max_label_len
    THEN BudgetUnusable("query token length exceeds dns_max_label_len")
    ELSE IF dns_name_wire_length(BudgetQnameLabels(config, query_token_len))
            > MAX_DNS_NAME_WIRE_LENGTH
    THEN BudgetUnusable("query name budget cannot fit query token and file tag labels")
    ELSE Return(TRUE)

_response_size_estimate(config, query_token_len, target_wire_len) ==
    LET question_size == dns_name_wire_length(BudgetQnameLabels(config, query_token_len))
                         + QUESTION_FIXED_BYTES
        answer_size == ANSWER_FIXED_BYTES + target_wire_len
        additional_size == IF config.dns_edns_size > CLASSIC_DNS_PACKET_LIMIT
                           THEN OPT_RR_BYTES ELSE 0
    IN DNS_HEADER_BYTES + question_size + answer_size + additional_size

\* max(config.dns_edns_size, CLASSIC_DNS_PACKET_LIMIT)
PacketSizeLimit(config) ==
    IF config.dns_edns_size > CLASSIC_DNS_PACKET_LIMIT THEN config.dns_edns_size
    ELSE CLASSIC_DNS_PACKET_LIMIT

\* variant: the payload is counted as one label, whatever its length
TargetWireLen_OneLengthByte(config, candidate) ==
    candidate + 1 + dns_name_wire_length(<<config.response_label>> \o config.longest_domain_labels)

\* dns_name_wire_length(payload_labels + suffix_labels) of a candidate
TargetWireLen(config, candidate) ==
    dns_name_wire_length(_payload_labels_for_chars(candidate, config.dns_max_label_len)
                         \o <<config.response_label>> \o config.longest_domain_labels)

\* variant: the name length of the target is not looked at
CandidateFits_PacketOnly(config, query_token_len, candidate) ==
    _response_size_estimate(config, query_token_len, TargetWireLen(config, candidate))
        <= PacketSizeLimit(config)

CandidateFits(config, query_token_len, candidate) ==
    /\ TargetWireLen(config, candidate) <= MAX_DNS_NAME_WIRE_LENGTH
    /\ _response_size_estimate(config, query_token_len, TargetWireLen(config, candidate))
         <= PacketSizeLimit(config)

BudgetEntry ==
    /\ budget_pc = "entry"
    /\ \E valid \in {_validate_query_token_len(budget_config, budget_query_token_len)} :
         IF valid.ok
         THEN /\ budget_pc' = "loop"
              /\ budget_locals' = [candidate |-> MAX_DNS_NAME_TEXT_LENGTH,
                                   max_payload_chars |-> 0,
                                   winning_response_size |-> 0]
              /\ UNCHANGED budget_outcome
         ELSE /\ budget_pc' = "raised"
              /\ budget_outcome' = valid
              /\ UNCHANGED budget_locals
    /\ UNCHANGED <<budget_config, budget_query_token_len, budget_earlier>>

\* an iteration of the for loop whose candidate does not fit
BudgetCandidateRejected ==
    /\ budget_pc = "loop"
    /\ ~CandidateFits(budget_config, budget_query_token_len, budget_locals.candidate)
    /\ budget_locals' = [budget_locals EXCEPT !.candidate = @ - 1]
    /\ budget_pc' = IF budget_locals.candidate = 1 THEN "after_loop" ELSE "loop"
    /\ UNCHANGED <<budget_config, budget_query_token_len, budget_outcome, budget_earlier>>

\* variant: the whole record capacity is handed out as slice bytes
BudgetFinish_RecordAsSlice ==
    /\ budget_pc = "after_loop"
    /\ LET max_payload_chars == budget_locals.max_payload_chars
           max_record_bytes == (max_payload_chars * BASE32_BITS_PER_CHAR) \div BITS_PER_BYTE
           max_ciphertext_slice_bytes == max_record_bytes
       IN budget_outcome' =
            IF max_payload_chars <= 0
            THEN BudgetUnusable("no payload capacity available within DNS name and packet limits")
            ELSE IF max_ciphertext_slice_bytes <= 0
            THEN BudgetUnusable("max_ciphertext_slice_bytes is not positive")
            ELSE Return([max_ciphertext_slice_bytes |-> max_ciphertext_slice_bytes,
                         budget_info |->
                           [max_payload_chars |-> max_payload_chars,
                            max_record_bytes |-> max_record_bytes,
                            binary_record_overhead |-> BINARY_RECORD_OVERHEAD,
                            dns_edns_size |-> budget_config.dns_edns_size,
                            response_size_limit |-> PacketSizeLimit(budget_config),
                            response_size_estimate |-> budget_locals.winning_response_size,
                            query_token_len |-> budget_query_token_len]])
    /\ budget_pc' = IF budget_outcome'.ok THEN "returned" ELSE "raised"
    /\ UNCHANGED <<budget_config, budget_query_token_len, budget_locals, budget_earlier>>

\* the iteration that breaks out of the loop
BudgetCandidateAccepted ==
    /\ budget_pc = "loop"
    /\ CandidateFits(budget_config, budget_query_token_len, budget_locals.candidate)
    /\ budget_locals' =
           [budget_locals EXCEPT
              !.max_payload_chars = budget_locals.candidate,
              !.winning_response_size =
                  _response_size_estimate(budget_config, budget_query_token_len,
                                          TargetWireLen(budget_config,
                                                        budget_locals.candidate))]
    /\ budget_pc' = "after_loop"
    /\ UNCHANGED <<budget_config, budget_query_token_len, budget_outcome, budget_earlier>>

BudgetFinish ==
    /\ budget_pc = "after_loop"
    /\ LET max_payload_chars == budget_locals.max_payload_chars
           max_record_bytes == (max_payload_chars * BASE32_BITS_PER_CHAR) \div BITS_PER_BYTE
           max_ciphertext_slice_bytes == max_record_bytes - BINARY_RECORD_OVERHEAD
       IN budget_outcome' =
            IF max_payload_chars <= 0
            THEN BudgetUnusable("no payload capacity available within DNS name and packet limits")
            ELSE IF max_ciphertext_slice_bytes <= 0
            THEN BudgetUnusable("max_ciphertext_slice_bytes is not positive")
            ELSE Return([max_ciphertext_slice_bytes |-> max_ciphertext_slice_bytes,
                         budget_info |->
                           [max_payload_chars |-> max_payload_chars,
                            max_record_bytes |-> max_record_bytes,
                            binary_record_overhead |-> BINARY_RECORD_OVERHEAD,
                            dns_edns_size |-> budget_config.dns_edns_size,
                            response_size_limit |-> PacketSizeLimit(budget_config),
                            response_size_estimate |-> budget_locals.winning_response_size,
                            query_token_len |-> budget_query_token_len]])
    /\ budget_pc' = IF budget_outcome'.ok THEN "returned" ELSE "raised"
    /\ UNCHANGED <<budget_config, budget_query_token_len, budget_locals, budget_earlier>>

BudgetEdnsSizes == {512, 513, 522, 523, 1232, 4096}

\* the caller computes the budget again for a configuration that differs
\* only in a larger dns_edns_size
BudgetAgain ==
    /\ budget_pc \in {"returned", "raised"}
    /\ budget_earlier = <<>>
    /\ \E edns_size \in BudgetEdnsSizes :
         /\ edns_size > budget_config.dns_edns_size
         /\ budget_config' = [budget_config EXCEPT !.dns_edns_size = edns_size]
    /\ budget_earlier' = [dns_edns_size |-> budget_config.dns_edns_size,
                          outcome |-> budget_outcome]
    /\ budget_pc' = "entry"
    /\ budget_locals' = <<>>
    /\ budget_outcome' = <<>>
    /\ UNCHANGED budget_query_token_len

\* domains of wire length 8, 224 and 250
BudgetDomains ==
    { <<L_ex, L_com>>,
      <<Repeated(97, 63), Repeated(98, 63), Repeated(99, 63), Repeated(100, 30)>>,
      <<Repeated(97, 63), Repeated(98, 63), Repeated(99, 63), Repeated(100, 56)>> }

BudgetConfigs ==
    [longest_domain_labels : BudgetDomains,
     response_label : {L_rx},
     dns_edns_size : BudgetEdnsSizes,
     dns_max_label_len : {16, 63},
     file_tag_len : {4, 16}]

\* 0 is refused, 17 exceeds the label cap 16
QueryTokenLens == {0, 1, 17}

InitBudget ==
    /\ budget_pc = "entry"
    /\ budget_config \in BudgetConfigs
    /\ budget_query_token_len \in QueryTokenLens
    /\ budget_locals = <<>>
    /\ budget_outcome = <<>>
    /\ budget_earlier = <<>>
    /\ runtime_state = ConsistentState(512)
    /\ datagram = <<>>
    /\ handled = FALSE
    /\ result = Dropped
    /\ MappingVarsIdle
    /\ ServeVarsIdle
    /\ WireVarsIdle
    /\ CodecVarsIdle
    /\ BuildVarsIdle
    /\ LateVarsIdle

NextBudget ==
    \/ BudgetEntry /\ UNCHANGED <<handlerVars, mappingVars, serveVars, wireVars, codecVars, buildVars, lateVars>>
    \/ BudgetCandidateRejected /\ UNCHANGED <<handlerVars, mappingVars, serveVars, wireVars, codecVars, buildVars, lateVars>>
    \/ BudgetCandidateAccepted /\ UNCHANGED <<handlerVars, mappingVars, serveVars, wireVars, codecVars, buildVars, lateVars>>
    \/ BudgetFinish /\ UNCHANGED <<handlerVars, mappingVars, serveVars, wireVars, codecVars, buildVars, lateVars>>
    \/ BudgetAgain /\ UNCHANGED <<handlerVars, mappingVars, serveVars, wireVars, codecVars, buildVars, lateVars>>

SpecBudget == InitBudget /\ [][NextBudget]_vars

(***************************************************************************)
(* C17: whenever compute_max_ciphertext_slice_bytes returns, the reported  *)
(* response_size_estimate is at most response_size_limit, the CNAME target *)
(* of max_payload_chars payload characters split at dns_max_label_len,     *)
(* response_label and the longest domain has wire length at most 255, and  *)
(* max_ciphertext_slice_bytes = max_record_bytes - 12 is positive.         *)
(***************************************************************************)
BudgetInfo == budget_outcome.value.budget_info

C17_BudgetWithinLimits ==
    budget_pc = "returned" =>
      /\ BudgetInfo.response_size_estimate <= BudgetInfo.response_size_limit
      /\ BudgetInfo.response_size_estimate =
           DNS_HEADER_BYTES
           + dns_name_wire_length(BudgetQnameLabels(budget_config, budget_query_token_len))
           + QUESTION_FIXED_BYTES + ANSWER_FIXED_BYTES
           + TargetWireLen(budget_config, BudgetInfo.max_payload_chars)
           + (IF budget_config.dns_edns_size > 512 THEN OPT_RR_BYTES ELSE 0)
      /\ TargetWireLen(budget_config, BudgetInfo.max_payload_chars) <= 255
      /\ budget_outcome.value.max_ciphertext_slice_bytes = BudgetInfo.max_record_bytes - 12
      /\ budget_outcome.value.max_ciphertext_slice_bytes > 0

\* both limits are reached: the name is 255 bytes long at the packet limit
C17_Witness ==
    /\ budget_pc = "returned"
    /\ budget_config.dns_edns_size = 523
    /\ TargetWireLen(budget_config, BudgetInfo.max_payload_chars) >= 253
    /\ BudgetInfo.response_size_estimate >= 522
    /\ budget_outcome.value.max_ciphertext_slice_bytes > 0

(***************************************************************************)
(* C18: of two configurations that differ only in dns_edns_size, e1 < e2   *)
(* in 512..4096, a budget computed for e1 is computed for e2 as well and   *)
(* max_ciphertext_slice_bytes for e2 is at least that for e1, also when    *)
(* e1 = 512 has no OPT record and e2 counts the 11 bytes of one.           *)
(***************************************************************************)
C18_BudgetMonotone ==
    (budget_pc \in {"returned", "raised"} /\ budget_earlier # <<>>
     /\ budget_earlier.outcome.ok) =>
        /\ budget_outcome.ok
        /\ budget_outcome.value.max_ciphertext_slice_bytes
             >= budget_earlier.outcome.value.max_ciphertext_slice_bytes

(***************************************************************************)
(* state.py: build_runtime_state                                           *)
(***************************************************************************)
RaisedStartupError(phase, reason_code) == [ok |-> FALSE, error |-> StartupError(phase, reason_code)]

\* the fields of PublishItem that the runtime state is built from
to_publish_item(mapped_item) ==
    [file_id |-> mapped_item.file_id,
     publish_version |-> mapped_item.publish_version,
     file_tag |-> mapped_item.file_tag,
     compressed_size |-> mapped_item.compressed_size,
     total_slices |-> mapped_item.total_slices,
     slice_token_len |-> mapped_item.slice_token_len,
     slice_tokens |-> mapped_item.slice_tokens,
     slice_bytes_by_index |-> mapped_item.slice_bytes_by_index]

KeyInLookup_Never(lookup, key) == FALSE

\* key in lookup
KeyInLookup(lookup, key) == key \in DOMAIN lookup

\* for index, token in enumerate(publish_item.slice_tokens), from index on
RECURSIVE AddSliceTokens(_, _, _)
AddSliceTokens(lookup, publish_item, index) ==
    IF index >= Len(publish_item.slice_tokens) THEN Return(lookup)
    ELSE
      LET key == Key(publish_item.file_tag, publish_item.slice_tokens[index + 1]) IN
      IF KeyInLookup(lookup, key)
      THEN RaisedStartupError("mapping", "mapping_collision")
      ELSE AddSliceTokens(
               (key :> <<publish_item.file_id, publish_item.publish_version, index>>)
               @@ lookup,
               publish_item, index + 1)

\* lines 91-94
EmptyBuildLocals ==
    [done |-> 0,
     publish_items |-> <<>>,
     lookup |-> <<>>,
     slice_bytes_by_identity |-> <<>>,
     publish_meta_by_identity |-> <<>>]

\* variant: the (total_slices, compressed_size) entry of the item is not stored
BuildOneItem_MetaNotStored(locals, mapped_item) ==
    LET publish_item == to_publish_item(mapped_item)
        identity == <<publish_item.file_id, publish_item.publish_version>>
    IN
    IF identity \in DOMAIN locals.slice_bytes_by_identity
    THEN RaisedStartupError("publish", "duplicate_publish_identity")
    ELSE
      LET added == AddSliceTokens(locals.lookup, publish_item, 0) IN
      IF ~added.ok THEN added
      ELSE Return(
             [done |-> locals.done + 1,
              publish_items |-> Append(locals.publish_items, publish_item),
              lookup |-> added.value,
              slice_bytes_by_identity |->
                  (identity :> publish_item.slice_bytes_by_index)
                  @@ locals.slice_bytes_by_identity,
              publish_meta_by_identity |-> locals.publish_meta_by_identity])

\* one iteration of "for item in mapped_publish_items"
BuildOneItem(locals, mapped_item) ==
    LET publish_item == to_publish_item(mapped_item)
        identity == <<publish_item.file_id, publish_item.publish_version>>
    IN
    IF identity \in DOMAIN locals.slice_bytes_by_identity
    THEN RaisedStartupError("publish", "duplicate_publish_identity")
    ELSE
      LET added == AddSliceTokens(locals.lookup, publish_item, 0) IN
      IF ~added.ok THEN added
      ELSE Return(
             [done |-> locals.done + 1,
              publish_items |-> Append(locals.publish_items, publish_item),
              lookup |-> added.value,
              slice_bytes_by_identity |->
                  (identity :> publish_item.slice_bytes_by_index)
                  @@ locals.slice_bytes_by_identity,
              publish_meta_by_identity |->
                  (identity :> <<publish_item.total_slices, publish_item.compressed_size>>)
                  @@ locals.publish_meta_by_identity])

\* RuntimeState(...): the fields the request handler reads
RuntimeStateOf(config, budget_info, locals) ==
    [config |-> config,
     lookup_by_key |-> locals.lookup,
     slice_bytes_by_identity |-> locals.slice_bytes_by_identity,
     publish_meta_by_identity |-> locals.publish_meta_by_identity,
     budget_info |-> budget_info]

\* an entry of apply_mapping with the slice bytes its publish item carries
\* (one byte per slice)
MappedItemOf(entry) ==
    [file_id |-> entry.file_id,
     publish_version |-> entry.publish_version,
     file_tag |-> entry.file_tag,
     compressed_size |-> entry.total_slices,
     total_slices |-> entry.total_slices,
     slice_token_len |-> entry.slice_token_len,
     slice_tokens |-> entry.slice_tokens,
     slice_bytes_by_index |-> [k \in 1..entry.total_slices |-> <<119 + k>>]]

\* build_startup_state: build_runtime_state is called with what apply_mapping returned
BuildFromMapping ==
    /\ mapping_pc = "returned"
    /\ build_pc = "idle"
    /\ build_pc' = "loop"
    /\ build_items' = [p \in 1..Len(entries) |-> MappedItemOf(entries[p])]
    /\ build_locals' = EmptyBuildLocals
    /\ UNCHANGED build_outcome

\* one iteration of the loop over mapped_publish_items (lines 96-128)
BuildItem ==
    /\ build_pc = "loop"
    /\ build_locals.done < Len(build_items)
    /\ \E step \in {BuildOneItem(build_locals, build_items[build_locals.done + 1])} :
         IF step.ok
         THEN /\ build_locals' = step.value
              /\ UNCHANGED <<build_pc, build_outcome>>
         ELSE /\ build_pc' = "raised"
              /\ build_outcome' = step
              /\ UNCHANGED build_locals
    /\ UNCHANGED build_items

\* the loop is exhausted: return RuntimeState(...) (lines 130-138)
BuildReturn ==
    /\ build_pc = "loop"
    /\ build_locals.done = Len(build_items)
    /\ build_pc' = "returned"
    /\ build_outcome' = Return(RuntimeStateOf(ConfigOf(512), [query_token_len |-> 2],
                                              build_locals))
    /\ UNCHANGED <<build_items, build_locals>>

(***************************************************************************)
(* Inputs of build_runtime_state handed over directly, as its tests do:    *)
(* items with distinct file ids (build_publish_items refuses a repeated    *)
(* file id) whose file tags and slice tokens are chosen freely, so that    *)
(* two items may claim one key.                                            *)
(***************************************************************************)
MaxBuildItems == 2

BuildTags == {L_g7, L_ab}
BuildTokens == {L_t0, L_t1}
\* token lists of one and two slices, a token repeated within a list included
BuildTokenLists == [1..1 -> BuildTokens] \cup [1..2 -> BuildTokens]

HandMadeItem(f, file_tag, slice_tokens) ==
    [file_id |-> FileIdOf(f),
     publish_version |-> PublishVersionOf(f),
     file_tag |-> file_tag,
     compressed_size |-> Len(slice_tokens),
     total_slices |-> Len(slice_tokens),
     slice_token_len |-> 2,
     slice_tokens |-> slice_tokens,
     slice_bytes_by_index |-> [k \in 1..Len(slice_tokens) |-> <<119 + k>>]]

BuildItemLists ==
    UNION { { [p \in 1..n |-> HandMadeItem(p, tags[p], tokens[p])] :
              tags \in [1..n -> BuildTags], tokens \in [1..n -> BuildTokenLists] } :
            n \in 1..MaxBuildItems }

\* startup: apply_mapping followed by build_runtime_state, or
\* build_runtime_state on items handed over directly
InitStartup ==
    /\ runtime_state = ConsistentState(512)
    /\ datagram = <<>>
    /\ handled = FALSE
    /\ result = Dropped
    /\ ServeVarsIdle
    /\ WireVarsIdle
    /\ CodecVarsIdle
    /\ BudgetVarsIdle
    /\ LateVarsIdle
    /\ build_outcome = <<>>
    /\ \/ /\ publish_items \in PublishBatches
          /\ mapping_config \in MappingConfigs
          /\ mapping_digests \in DigestAssignments(publish_items)
          /\ mapping_pc = "start"
          /\ entries = <<>>
          /\ max_len_by_index = <<>>
          /\ canonical_order = <<>>
          /\ mapping_error = NoStartupError
          /\ mapping_rounds = 0
          /\ build_pc = "idle"
          /\ build_items = <<>>
          /\ build_locals = <<>>
       \/ /\ MappingVarsIdle
          /\ build_pc = "loop"
          /\ build_items \in BuildItemLists
          /\ build_locals = EmptyBuildLocals

NextStartup ==
    \/ ApplyMappingDerive /\ UNCHANGED <<handlerVars, serveVars, restVars>>
    \/ ApplyMappingReturn /\ UNCHANGED <<handlerVars, serveVars, restVars>>
    \/ ApplyMappingCollision /\ UNCHANGED <<handlerVars, serveVars, restVars>>
    \/ ApplyMappingPromote /\ UNCHANGED <<handlerVars, serveVars, restVars>>
    \/ BuildFromMapping /\ UNCHANGED <<handlerVars, mappingVars, serveVars, wireVars, codecVars, budgetVars, lateVars>>
    \/ BuildItem /\ UNCHANGED <<handlerVars, mappingVars, serveVars, wireVars, codecVars, budgetVars, lateVars>>
    \/ BuildReturn /\ UNCHANGED <<handlerVars, mappingVars, serveVars, wireVars, codecVars, budgetVars, lateVars>>

SpecStartup == InitStartup /\ [][NextStartup]_vars

\* two different items of the list claim one (file_tag, slice_token)
TwoItemsClaimOneKey(items) ==
    \E p \in 1..Len(items), q \in 1..Len(items) :
        /\ p # q
        /\ items[p].file_tag = items[q].file_tag
        /\ \E i \in 1..Len(items[p].slice_tokens), j \in 1..Len(items[q].slice_tokens) :
               items[p].slice_tokens[i] = items[q].slice_tokens[j]

\* the first colliding entry in canonical order cannot be given a longer token
PromotedEntryAtMax ==
    \E p \in 1..Len(canonical_order) :
        /\ canonical_order[p] \in _find_colliding_files(entries)
        /\ \A q \in 1..(p - 1) : canonical_order[q] \notin _find_colliding_files(entries)
        /\ entries[canonical_order[p] + 1].slice_token_len
             >= max_len_by_index[canonical_order[p] + 1]

\* every key of every item leads to that item's identity and slice index
LookupHoldsEveryKey(items, lookup) ==
    \A p \in 1..Len(items) : \A i \in 1..Len(items[p].slice_tokens) :
        /\ Key(items[p].file_tag, items[p].slice_tokens[i]) \in DOMAIN lookup
        /\ lookup[Key(items[p].file_tag, items[p].slice_tokens[i])]
             = <<items[p].file_id, items[p].publish_version, i - 1>>

\* C20: a collision is fatal at startup and never reaches the served state.
\* A round of apply_mapping whose promoted entry is already at its maximum
\* token length raises StartupError mapping_collision, and
\* build_runtime_state, handed two items that claim the same
\* (file_tag, slice_token), raises mapping_collision instead of overwriting:
\* a state it returns holds every key of every item.
C20_CollisionIsFatal ==
    /\ [][(mapping_pc = "resolving" /\ PromotedEntryAtMax)
            => (mapping_pc' = "raised"
                /\ mapping_error' = StartupError("mapping", "mapping_collision"))]_vars
    /\ []((build_pc \in {"returned", "raised"} /\ TwoItemsClaimOneKey(build_items))
            => build_outcome = RaisedStartupError("mapping", "mapping_collision"))
    /\ [](build_pc = "returned"
            => LookupHoldsEveryKey(build_items, build_outcome.value.lookup_by_key))

C20_Witness ==
    /\ build_pc = "raised"
    /\ Len(build_items) = 2
    /\ build_items[1].file_id # build_items[2].file_id
    /\ build_items[1].file_tag = L_g7 /\ build_items[2].file_tag = L_g7
    /\ build_items[1].slice_tokens = <<L_t0>> /\ build_items[2].slice_tokens = <<L_t0>>
    /\ build_locals.done = 1
    /\ build_outcome = RaisedStartupError("mapping", "mapping_collision")

(***************************************************************************)
(* The header and the question section of a response.                      *)
(***************************************************************************)
\* the rcode the handler hands to build_response for each classification
GivenRcode ==
    IF Classification \in {"served", "followup"} THEN DNS_RCODE_NOERROR
    ELSE IF Classification = "miss" THEN DNS_RCODE_NXDOMAIN
    ELSE DNS_RCODE_SERVFAIL

\* the bytes of the question section of the request, after the header
RequestQuestionEnd == _decode_name(datagram, DNS_HEADER_BYTES).next_offset + 4
\* the bytes build_response writes for the question
ResponseQuestionLen ==
    IF Req.question.present THEN Len(encode_name(QName)) + 4 ELSE 0

\* C25: every response has QR and AA set, the RD bit and the opcode of the
\* request echoed, the rcode handed to build_response in the low 4 bits and
\* the id of the request; its answer count is 1 if and only if an answer
\* record follows the question, its authority count is 0, and its additional
\* count is 1, with the OPT record at its end, exactly when dns_edns_size
\* exceeds 512, whatever the classification.
C25_ResponseHeader ==
    Answer =>
      /\ UnpackU16(result.response, 0) = Req.id
      /\ BitOf(RespFlags, 15) = 1
      /\ BitOf(RespFlags, 10) = 1
      /\ BitOf(RespFlags, 8) = BitOf(Req.flags, 8)
      /\ (RespFlags \div 2048) % 16 = (Req.flags \div 2048) % 16
      /\ RespRcode = GivenRcode
      /\ RespAncount \in {0, 1}
      /\ RespAncount = 1 <=> Classification \in {"served", "followup"}
      /\ RespAncount = 1
           <=> Len(result.response) > DNS_HEADER_BYTES + ResponseQuestionLen + OptBytes
      /\ UnpackU16(result.response, 8) = 0
      /\ RespArcount \in {0, 1}
      /\ RespArcount = 1 <=> Cfg.dns_edns_size > 512
      /\ RespArcount = 1
           => SubSeq(result.response, Len(result.response) - 10, Len(result.response))
                = _encode_opt_record(Cfg.dns_edns_size)

C25_Witness ==
    /\ Answer
    /\ Req.flags = 256
    /\ Classification = "served"
    /\ Cfg.dns_edns_size = 1232
    /\ RespFlags = 34048
    /\ RespAncount = 1
    /\ RespArcount = 1

\* C26: the question section of a response is byte for byte the question
\* section of the request, so a mixed-case name keeps its letter-casing.
C26_QuestionEchoedByteForByte ==
    (Answer /\ Req.question.present)
      => SubSeq(result.response, DNS_HEADER_BYTES + 1, RequestQuestionEnd)
           = SubSeq(datagram, DNS_HEADER_BYTES + 1, RequestQuestionEnd)

(***************************************************************************)
(* Start and stop of serve_runtime.                                        *)
(***************************************************************************)
\* the states of ServeStates that pass the self-check
SelfCheckedStates == {state \in ServeStates : _validate_runtime_state_for_serving(state).ok}

SelfCheckOk == runtime_state \in SelfCheckedStates

\* the records of emitted that are shutdown records
ShutdownPositions == {k \in 1..Len(emitted) : emitted[k].classification = "shutdown"}

\* a step in which recvfrom returned a datagram
ReceivesDatagram == iterations' = iterations + 1 /\ last_receive' \in {"datagram", "handler_raised"}

\* the step ends with the datagram dropped, the response handed to sendto and
\* its record emitted, or the failed sendto recorded
HandledToTheEnd ==
    \/ /\ sent' = sent
       /\ counters'.dropped = counters.dropped + 1
    \/ /\ Len(sent') = Len(sent) + 1
       /\ Len(emitted') > Len(emitted)
       /\ emitted'[Len(emitted')].classification
            \in {"served", "followup", "miss", "runtime_fault"}
    \/ /\ sent' = sent
       /\ Len(emitted') > Len(emitted)
       /\ emitted'[Len(emitted')].reason_code = "send_error"

\* C23: the stop condition is read once per iteration and never while a
\* request is handled.  A step that receives a datagram starts with stop not
\* requested and ends with the datagram handled to the end, the loop still
\* running; once stop is requested nothing more is received or sent; a
\* requested stop leads to the return of serve_runtime; and when it has
\* returned the socket is closed and emitted holds exactly one shutdown
\* record, its last.
C23_StopBetweenRequests ==
    /\ [][ReceivesDatagram
            => (~stop_state.stop /\ HandledToTheEnd
                /\ stop_state' = stop_state /\ serve_pc' = "loop" /\ sock' = "open")]_vars
    /\ [][stop_state.stop => (iterations' = iterations /\ sent' = sent)]_vars
    /\ ((stop_state.stop /\ serve_pc \in {"loop", "exiting"}) ~> serve_pc = "returned")
    /\ [](serve_pc = "returned"
            => /\ sock = "closed"
               /\ stop_state.stop
               /\ ShutdownPositions = {Len(emitted)}
               /\ emitted[Len(emitted)].reason_code = stop_state.reason)

C23_Witness ==
    /\ serve_pc = "returned"
    /\ stop_state.reason = "signal_15"
    /\ sock = "closed"
    /\ Len(sent) >= 1
    /\ Len(emitted) >= 3
    /\ emitted[1].classification = "server_start"
    /\ emitted[2].classification = "served"
    /\ emitted[Len(emitted)].classification = "shutdown"

\* C24: the self-check runs before the socket is created.  A socket or an
\* emitted record exists only in a run whose self-check passed, and a run
\* whose self-check fails ends in StartupError server_runtime_invalid with no
\* socket created and no record emitted.
C24_SelfCheckBeforeSocket ==
    /\ (sock # "none" \/ emitted # <<>> \/ sent # <<>>) => SelfCheckOk
    /\ (~SelfCheckOk /\ serve_pc # "start")
         => /\ serve_pc = "raised"
            /\ serve_error = StartupError("startup", "server_runtime_invalid")
            /\ sock = "none"
            /\ emitted = <<>>

C24_Witness ==
    /\ serve_pc = "raised"
    /\ runtime_state = OverlongTokenState
    /\ serve_error = StartupError("startup", "server_runtime_invalid")
    /\ sock = "none"
    /\ emitted = <<>>

\* two iterations in a row received the same datagram and the handler returned
SameRequestAgain ==
    /\ last_receive = "datagram"
    /\ last_receive' = "datagram"
    /\ iterations' = iterations + 1
    /\ datagram' = datagram

MaxNameLabels == 2

\* upper and lower case letters and a digit
NameAlphabet == {65, 97, 48}

\* labels of 0, 1 and 2 bytes, and labels at and over the limit of 63
NameLabels ==
    UNION { [1..n -> NameAlphabet] : n \in 0..2 }
      \cup { Repeated(97, 63), Repeated(65, 63), Repeated(97, 64) }

\* names of up to MaxNameLabels labels, and names at and over the limit of
\* 127 labels of _decode_name
NameInputs ==
    UNION { [1..n -> NameLabels] : n \in 0..MaxNameLabels }
      \cup { [i \in 1..127 |-> <<97>>], [i \in 1..128 |-> <<97>>],
             [i \in 1..127 |-> <<65, 48>>] }

\* encode_name: one iteration of the loop over labels
NameEncodeLabel ==
    /\ name_pc = "encoding"
    /\ name_done < Len(name_labels)
    /\ LabelEncodable(name_labels[name_done + 1])
    /\ name_encoded' = name_encoded \o PackU8(Len(name_labels[name_done + 1]))
                                    \o name_labels[name_done + 1]
    /\ name_done' = name_done + 1
    /\ UNCHANGED <<name_pc, name_labels, wireVars>>

\* encode_name: _to_label_bytes raises ValueError
NameEncodeRefused ==
    /\ name_pc = "encoding"
    /\ name_done < Len(name_labels)
    /\ ~LabelEncodable(name_labels[name_done + 1])
    /\ name_pc' = "refused"
    /\ UNCHANGED <<name_labels, name_encoded, name_done, wireVars>>

\* encode_name: the zero byte appended and the parts joined
NameEncodeReturn ==
    /\ name_pc = "encoding"
    /\ name_done = Len(name_labels)
    /\ name_encoded' = name_encoded \o <<0>>
    /\ name_pc' = "encoded"
    /\ UNCHANGED <<name_labels, name_done, wireVars>>

\* _decode_name called on the encoded name at offset 0
NameDecodeCall ==
    /\ name_pc = "encoded"
    /\ name_pc' = "decoding"
    /\ wire_entry' = "_decode_name"
    /\ wire_message' = name_encoded
    /\ wire_start' = 0
    /\ wire_pc' = "entry"
    /\ UNCHANGED <<name_labels, name_encoded, name_done, wire_offset, wire_labels,
                   wire_jumped, wire_read_end, wire_visited, wire_steps, wire_reads,
                   wire_outcome>>

InitName ==
    /\ name_pc = "encoding"
    /\ name_labels \in NameInputs
    /\ name_encoded = <<>>
    /\ name_done = 0
    /\ runtime_state = ConsistentState(512)
    /\ datagram = <<>>
    /\ handled = FALSE
    /\ result = Dropped
    /\ MappingVarsIdle
    /\ ServeVarsIdle
    /\ WireVarsIdle
    /\ CodecVarsIdle
    /\ BudgetVarsIdle
    /\ BuildVarsIdle
    /\ StartupVarsIdle
    /\ LoggerVarsIdle
    /\ ConfigVarsIdle
    /\ ClientVarsIdle

NextName ==
    \/ NameEncodeLabel /\ UNCHANGED <<handlerVars, mappingVars, serveVars, codecVars, budgetVars, buildVars, startupVars, loggerVars, configVars, clientVars>>
    \/ NameEncodeRefused /\ UNCHANGED <<handlerVars, mappingVars, serveVars, codecVars, budgetVars, buildVars, startupVars, loggerVars, configVars, clientVars>>
    \/ NameEncodeReturn /\ UNCHANGED <<handlerVars, mappingVars, serveVars, codecVars, budgetVars, buildVars, startupVars, loggerVars, configVars, clientVars>>
    \/ NameDecodeCall /\ UNCHANGED <<handlerVars, mappingVars, serveVars, codecVars, budgetVars, buildVars, startupVars, loggerVars, configVars, clientVars>>
    \/ WireDecodeNameEntry /\ UNCHANGED <<handlerVars, mappingVars, serveVars, codecVars, budgetVars, buildVars, nameVars, startupVars, loggerVars, configVars, clientVars>>
    \/ WireDecodeNameStep /\ UNCHANGED <<handlerVars, mappingVars, serveVars, codecVars, budgetVars, buildVars, nameVars, startupVars, loggerVars, configVars, clientVars>>

SpecName == InitName /\ [][NextName]_vars

\* the labels with A..Z replaced by a..z
LowerLabels(labels) ==
    [i \in 1..Len(labels) |-> [j \in 1..Len(labels[i]) |-> LowerByte(labels[i][j])]]

NoLabelOver63 == \A i \in 1..Len(name_labels) : Len(name_labels[i]) <= 63

\* _decode_name has returned or raised on the encoded name
NameDecoded == name_pc = "decoding" /\ wire_pc \in {"returned", "raised"}

\* C27 as stated: a name none of whose labels is longer than 63 bytes decodes
\* to the labels it was encoded from and to the encoded length.
C27_Original ==
    (NameDecoded /\ NoLabelOver63)
      => wire_outcome = Returned([ok |-> TRUE, labels |-> name_labels,
                                  next_offset |-> Len(name_encoded)])

\* C27, amended: encode_name refuses exactly the names with an empty label
\* or a label over 63 bytes; a name of at most 127 labels that it encodes
\* decodes from offset 0 to its labels in lower case and to the encoded
\* length; a name of more labels is refused by _decode_name.
C27_RoundTripLowercases ==
    /\ name_pc = "refused" => ~NameEncodable(name_labels)
    /\ name_pc \in {"encoded", "decoding"} => NameEncodable(name_labels)
    /\ (NameDecoded /\ Len(name_labels) <= 127)
         => wire_outcome = Returned([ok |-> TRUE, labels |-> LowerLabels(name_labels),
                                     next_offset |-> Len(name_encoded)])
    /\ (NameDecoded /\ Len(name_labels) > 127)
         => wire_outcome = RaisedError("DnsParseError")

C27_Witness ==
    /\ NameDecoded
    /\ name_labels = <<<<65, 48>>, Repeated(65, 63)>>
    /\ wire_outcome.kind = "returned"
    /\ wire_outcome.value.labels = <<<<97, 48>>, Repeated(97, 63)>>
    /\ wire_outcome.value.next_offset = 68

(***************************************************************************)
(* Termination of the collision loop of apply_mapping.                     *)
(***************************************************************************)
RECURSIVE RoomLeft(_, _, _)
\* the sum over the entries from k on of (max length - slice_token_len)
RoomLeft(entry_list, max_lens, k) ==
    IF k > Len(entry_list) THEN 0
    ELSE (max_lens[k] - entry_list[k].slice_token_len)
           + RoomLeft(entry_list, max_lens, k + 1)

\* the sum over the items of (max length - initial local length)
InitialRoom ==
    CHOOSE room \in { IF derived.ok
                      THEN RoomLeft(derived.entries, derived.max_len_by_index, 1)
                      ELSE 0 :
                      derived \in {DeriveEntries(publish_items, mapping_config, 1, <<>>, <<>>)} } :
        TRUE

\* the loop has been entered
InCollisionLoop == mapping_pc = "resolving" \/ mapping_rounds > 0

\* the entries whose slice_token_len the step changes
PromotedInStep ==
    {i \in 1..Len(entries) : entries'[i].slice_token_len # entries[i].slice_token_len}

\* a round ends the call, or makes one entry one character longer and
\* recomputes its tokens, leaving every other entry as it was
RoundReturnsRaisesOrPromotesOne ==
    \/ mapping_pc' = "returned" /\ entries' = entries /\ mapping_error' = mapping_error
    \/ /\ mapping_pc' = "raised"
       /\ entries' = entries
       /\ mapping_error' = StartupError("mapping", "mapping_collision")
    \/ /\ mapping_pc' = "resolving"
       /\ Len(entries') = Len(entries)
       /\ \E i \in 1..Len(entries) :
            /\ PromotedInStep = {i}
            /\ entries'[i].slice_token_len = entries[i].slice_token_len + 1
            /\ \A j \in 1..Len(entries) : j # i => entries'[j] = entries[j]

\* C30 as stated, its bound: the rounds are at most the sum over the items
\* of (max length - initial local length).
C30_Original == InCollisionLoop => mapping_rounds <= InitialRoom

\* C30, amended: the collision loop of apply_mapping terminates.  Each round
\* returns, raises mapping_collision, or increases one item's slice_token_len
\* by exactly 1; every length stays within the item's maximum token length;
\* the rounds begun and the room left (the sum over the items of max length
\* - slice_token_len) together never exceed the sum over the items of (max
\* length - initial local length), plus one for the round that returns or
\* raises; and the loop, once entered, returns or raises.
C30_CollisionLoopTerminates ==
    /\ [][mapping_pc = "resolving" => RoundReturnsRaisesOrPromotesOne]_vars
    /\ [](InCollisionLoop
            => /\ \A i \in 1..Len(entries) :
                    entries[i].slice_token_len <= max_len_by_index[i]
               /\ mapping_rounds + RoomLeft(entries, max_len_by_index, 1)
                    <= InitialRoom + (IF mapping_pc = "resolving" THEN 0 ELSE 1))
    /\ (mapping_pc = "resolving" ~> mapping_pc \in {"returned", "raised"})

C30_Witness ==
    /\ mapping_pc = "returned"
    /\ mapping_rounds = 3
    /\ InitialRoom >= 2
    /\ \E i \in 1..Len(entries) : entries[i].slice_token_len = max_len_by_index[i]

(***************************************************************************)
(* __init__.py: the convergence loops of build_startup_state.  What        *)
(* compute_max_ciphertext_slice_bytes, build_publish_items and             *)
(* apply_mapping give for a query_token_len is fixed for a run and drawn   *)
(* from StartupEnvs: the token length the user files need grows with       *)
(* query_token_len up to user_settle, that of the client file up to        *)
(* client_settle.                                                          *)
(***************************************************************************)
\* slice tokens are at most this long
MaxRealizedLen == 16

INITIAL_QUERY_TOKEN_LEN == 4
OUTER_ITERATIONS == 10

\* the token length the first user file needs under query_token_len q
UserLen(env, q) ==
    IF q >= env.user_settle THEN env.user_settle - env.user_drop
    ELSE Min(q + env.user_step, env.user_settle)

\* the token length the client file needs under query_token_len q
ClientLen(env, q) == IF q >= env.client_settle THEN env.client_settle ELSE q + 1

\* the max_ciphertext_slice_bytes the budget gives under query_token_len q
SliceBudgetAt(q) == 64 - q

\* a mapped item of a file longer than any budget: its first slice has the
\* length the file was chunked at
MappedItem(file_id, file_tag, slice_token_len, variant, chunked_at) ==
    [file_id |-> file_id, file_tag |-> file_tag, slice_token_len |-> slice_token_len,
     slice_tokens |-> <<file_id, slice_token_len, variant>>,
     first_slice_len |-> chunked_at]

\* apply_mapping(build_publish_items(config, budget), config): two user files
UserMapping(env, q) ==
    <<MappedItem("user1", "tag1", UserLen(env, q), 0, SliceBudgetAt(q)),
      MappedItem("user2", "tag2", 2, 0, SliceBudgetAt(q))>>

\* apply_mapping(combined_items, config): the user files as publish_items
\* holds them, one of them mapped otherwise when the client file disturbs
\* it, and the client file chunked at max_ciphertext_slice_bytes
CombinedMapping(env, q, publish, max_ciphertext_slice_bytes) ==
    << MappedItem("user1", "tag1", UserLen(env, q), 0, publish[1].first_slice_len),
       IF env.disturb = "file_tag"
       THEN MappedItem("user2", "tag9", 2, 0, publish[2].first_slice_len)
       ELSE IF env.disturb = "slice_token_len"
       THEN MappedItem("user2", "tag2", 3, 0, publish[2].first_slice_len)
       ELSE IF env.disturb = "slice_tokens"
       THEN MappedItem("user2", "tag2", 2, 1, publish[2].first_slice_len)
       ELSE MappedItem("user2", "tag2", 2, 0, publish[2].first_slice_len) >>
      \o (IF env.disturb = "client_missing" THEN <<>>
          ELSE <<MappedItem("client", "tagc", ClientLen(env, q), 0,
                            max_ciphertext_slice_bytes)>>)

\* budget or mapping raises StartupError once query_token_len reaches raise_at
PipelineRaises(env, q) == env.raise_at # 0 /\ q >= env.raise_at

StartupEnvs ==
    [user_settle : INITIAL_QUERY_TOKEN_LEN..MaxRealizedLen,
     user_step : {1, 3},
     user_drop : {0, 1},
     client_settle : INITIAL_QUERY_TOKEN_LEN..MaxRealizedLen,
     disturb : {"none", "file_tag", "slice_token_len", "slice_tokens", "client_missing"},
     raise_at : {0, 12}]

RECURSIVE MaxTokenLenOver(_, _, _)
MaxTokenLenOver(mapped_publish_items, k, max_len) ==
    IF k > Len(mapped_publish_items) THEN max_len
    ELSE MaxTokenLenOver(mapped_publish_items, k + 1,
                         IF mapped_publish_items[k].slice_token_len > max_len
                         THEN mapped_publish_items[k].slice_token_len ELSE max_len)

\* variant: the maximum is taken over the user files only
_max_slice_token_len_UserFilesOnly(mapped_publish_items) ==
    MaxTokenLenOver(SubSeq(mapped_publish_items, 1, Min(2, Len(mapped_publish_items))), 1, 1)

_max_slice_token_len(mapped_publish_items) == MaxTokenLenOver(mapped_publish_items, 1, 1)

\* user_file_snapshot: (file_tag, slice_token_len, slice_tokens) by file_id
UserFileSnapshot(mapped) ==
    [id \in {mapped[k].file_id : k \in 1..Len(mapped)} |->
        LET item == mapped[CHOOSE k \in 1..Len(mapped) :
                             /\ mapped[k].file_id = id
                             /\ \A later \in (k + 1)..Len(mapped) : mapped[later].file_id # id]
        IN <<item.file_tag, item.slice_token_len, item.slice_tokens>>]

\* variant: the comparison leaves slice_tokens out
StabilityViolated_TokensUnchecked(mapped, combined) ==
    \E k \in 1..Len(combined) :
        /\ combined[k].file_id \in DOMAIN UserFileSnapshot(mapped)
        /\ \/ combined[k].file_tag # UserFileSnapshot(mapped)[combined[k].file_id][1]
           \/ combined[k].slice_token_len # UserFileSnapshot(mapped)[combined[k].file_id][2]

\* the loop over combined_mapped finds an item that differs from its snapshot
StabilityViolated(mapped, combined) ==
    \E k \in 1..Len(combined) :
        /\ combined[k].file_id \in DOMAIN UserFileSnapshot(mapped)
        /\ <<combined[k].file_tag, combined[k].slice_token_len, combined[k].slice_tokens>>
             # UserFileSnapshot(mapped)[combined[k].file_id]

\* an iteration of the while loop in which budget, publish or mapping raises
StartupInnerRaises ==
    /\ startup_pc = "inner"
    /\ PipelineRaises(startup_env, startup_query_token_len)
    /\ startup_pc' = "raised"
    /\ startup_error' = StartupError("budget", "budget_unusable")
    /\ UNCHANGED <<startup_env, startup_query_token_len, startup_outer, startup_inner,
                   startup_mapped_items, startup_combined_mapped, startup_budget_info,
                   startup_max_ciphertext_slice_bytes, startup_runtime_state>>

\* variant: the while loop gives up after OUTER_ITERATIONS iterations
StartupInnerRetry_Capped ==
    /\ startup_pc = "inner"
    /\ ~PipelineRaises(startup_env, startup_query_token_len)
    /\ \E mapped \in {UserMapping(startup_env, startup_query_token_len)} :
         /\ _max_slice_token_len(mapped) > startup_query_token_len
         /\ startup_mapped_items' = mapped
         /\ startup_budget_info' = [query_token_len |-> startup_query_token_len]
         /\ startup_max_ciphertext_slice_bytes' = SliceBudgetAt(startup_query_token_len)
         /\ startup_inner' = startup_inner + 1
         /\ startup_query_token_len' = _max_slice_token_len(mapped)
         /\ IF startup_inner + 1 >= OUTER_ITERATIONS
            THEN /\ startup_pc' = "raised"
                 /\ startup_error' = StartupError("startup", "token_convergence_failed")
            ELSE UNCHANGED <<startup_pc, startup_error>>
    /\ UNCHANGED <<startup_env, startup_outer, startup_combined_mapped,
                   startup_runtime_state>>

\* an iteration of the while loop whose realized maximum exceeds query_token_len
StartupInnerRetry ==
    /\ startup_pc = "inner"
    /\ ~PipelineRaises(startup_env, startup_query_token_len)
    /\ \E mapped \in {UserMapping(startup_env, startup_query_token_len)} :
         /\ _max_slice_token_len(mapped) > startup_query_token_len
         /\ startup_mapped_items' = mapped
         /\ startup_budget_info' = [query_token_len |-> startup_query_token_len]
         /\ startup_max_ciphertext_slice_bytes' = SliceBudgetAt(startup_query_token_len)
         /\ startup_inner' = startup_inner + 1
         /\ startup_query_token_len' = _max_slice_token_len(mapped)
    /\ UNCHANGED <<startup_pc, startup_env, startup_outer, startup_combined_mapped,
                   startup_runtime_state, startup_error>>

\* an iteration of the while loop that breaks
StartupInnerConverged ==
    /\ startup_pc = "inner"
    /\ ~PipelineRaises(startup_env, startup_query_token_len)
    /\ \E mapped \in {UserMapping(startup_env, startup_query_token_len)} :
         /\ _max_slice_token_len(mapped) <= startup_query_token_len
         /\ startup_mapped_items' = mapped
         /\ startup_budget_info' = [query_token_len |-> startup_query_token_len]
         /\ startup_max_ciphertext_slice_bytes' = SliceBudgetAt(startup_query_token_len)
         /\ startup_inner' = startup_inner + 1
         /\ startup_pc' = "phase2"
    /\ UNCHANGED <<startup_env, startup_query_token_len, startup_outer,
                   startup_combined_mapped, startup_runtime_state, startup_error>>

\* variant: the for loop allows one more iteration
StartupPhase2_Uncapped ==
    /\ startup_pc = "phase2"
    /\ \E combined \in {CombinedMapping(startup_env, startup_query_token_len,
                                        startup_mapped_items,
                                        startup_max_ciphertext_slice_bytes)} :
         /\ startup_combined_mapped' = combined
         /\ IF StabilityViolated(startup_mapped_items, combined)
            THEN /\ startup_pc' = "raised"
                 /\ startup_error' = StartupError("startup", "mapping_stability_violation")
                 /\ UNCHANGED <<startup_query_token_len, startup_outer, startup_inner>>
            ELSE IF _max_slice_token_len(combined) <= startup_query_token_len
            THEN /\ startup_pc' = "converged"
                 /\ UNCHANGED <<startup_query_token_len, startup_outer, startup_inner,
                                startup_error>>
            ELSE /\ startup_query_token_len' = _max_slice_token_len(combined)
                 /\ IF startup_outer < OUTER_ITERATIONS + 1
                    THEN /\ startup_pc' = "inner"
                         /\ startup_outer' = startup_outer + 1
                         /\ startup_inner' = 0
                         /\ UNCHANGED startup_error
                    ELSE /\ startup_pc' = "raised"
                         /\ startup_error' =
                              StartupError("startup", "token_convergence_failed")
                         /\ UNCHANGED <<startup_outer, startup_inner>>
    /\ UNCHANGED <<startup_env, startup_mapped_items, startup_budget_info,
                   startup_max_ciphertext_slice_bytes, startup_runtime_state>>

\* phase 2 up to the end of the iteration of the for loop: the combined
\* mapping, the stability check, and the break, the next iteration or the
\* else clause of the loop
StartupPhase2 ==
    /\ startup_pc = "phase2"
    /\ \E combined \in {CombinedMapping(startup_env, startup_query_token_len,
                                        startup_mapped_items,
                                        startup_max_ciphertext_slice_bytes)} :
         /\ startup_combined_mapped' = combined
         /\ IF StabilityViolated(startup_mapped_items, combined)
            THEN /\ startup_pc' = "raised"
                 /\ startup_error' = StartupError("startup", "mapping_stability_violation")
                 /\ UNCHANGED <<startup_query_token_len, startup_outer, startup_inner>>
            ELSE IF _max_slice_token_len(combined) <= startup_query_token_len
            THEN /\ startup_pc' = "converged"
                 /\ UNCHANGED <<startup_query_token_len, startup_outer, startup_inner,
                                startup_error>>
            ELSE /\ startup_query_token_len' = _max_slice_token_len(combined)
                 /\ IF startup_outer < OUTER_ITERATIONS
                    THEN /\ startup_pc' = "inner"
                         /\ startup_outer' = startup_outer + 1
                         /\ startup_inner' = 0
                         /\ UNCHANGED startup_error
                    ELSE /\ startup_pc' = "raised"
                         /\ startup_error' =
                              StartupError("startup", "token_convergence_failed")
                         /\ UNCHANGED <<startup_outer, startup_inner>>
    /\ UNCHANGED <<startup_env, startup_mapped_items, startup_budget_info,
                   startup_max_ciphertext_slice_bytes, startup_runtime_state>>

\* after the loop: the client item is looked up in combined_mapped
StartupReturn ==
    /\ startup_pc = "converged"
    /\ IF \E k \in 1..Len(startup_combined_mapped) :
             startup_combined_mapped[k].file_id = "client"
       THEN /\ startup_pc' = "returned"
            /\ startup_runtime_state' =
                 [publish_items |-> startup_combined_mapped,
                  max_ciphertext_slice_bytes |-> startup_max_ciphertext_slice_bytes,
                  budget_info |-> startup_budget_info]
            /\ UNCHANGED startup_error
       ELSE /\ startup_pc' = "raised"
            /\ startup_error' = StartupError("startup", "mapping_stability_violation")
            /\ UNCHANGED startup_runtime_state
    /\ UNCHANGED <<startup_env, startup_query_token_len, startup_outer, startup_inner,
                   startup_mapped_items, startup_combined_mapped, startup_budget_info,
                   startup_max_ciphertext_slice_bytes>>

\* build_startup_state up to the first iteration of the for loop
InitConvergence ==
    /\ startup_pc = "inner"
    /\ startup_env \in StartupEnvs
    /\ startup_query_token_len = INITIAL_QUERY_TOKEN_LEN
    /\ startup_outer = 1
    /\ startup_inner = 0
    /\ startup_mapped_items = <<>>
    /\ startup_combined_mapped = <<>>
    /\ startup_budget_info = <<>>
    /\ startup_max_ciphertext_slice_bytes = 0
    /\ startup_runtime_state = <<>>
    /\ startup_error = NoStartupError
    /\ runtime_state = ConsistentState(512)
    /\ datagram = <<>>
    /\ handled = FALSE
    /\ result = Dropped
    /\ MappingVarsIdle
    /\ ServeVarsIdle
    /\ WireVarsIdle
    /\ CodecVarsIdle
    /\ BudgetVarsIdle
    /\ BuildVarsIdle
    /\ NameVarsIdle
    /\ LoggerVarsIdle
    /\ ConfigVarsIdle
    /\ ClientVarsIdle

NextConvergence ==
    \/ StartupInnerRaises /\ UNCHANGED <<handlerVars, mappingVars, serveVars, wireVars, codecVars, budgetVars, buildVars, nameVars, loggerVars, configVars, clientVars>>
    \/ StartupInnerRetry /\ UNCHANGED <<handlerVars, mappingVars, serveVars, wireVars, codecVars, budgetVars, buildVars, nameVars, loggerVars, configVars, clientVars>>
    \/ StartupInnerConverged /\ UNCHANGED <<handlerVars, mappingVars, serveVars, wireVars, codecVars, budgetVars, buildVars, nameVars, loggerVars, configVars, clientVars>>
    \/ StartupPhase2 /\ UNCHANGED <<handlerVars, mappingVars, serveVars, wireVars, codecVars, budgetVars, buildVars, nameVars, loggerVars, configVars, clientVars>>
    \/ StartupReturn /\ UNCHANGED <<handlerVars, mappingVars, serveVars, wireVars, codecVars, budgetVars, buildVars, nameVars, loggerVars, configVars, clientVars>>

SpecConvergence == InitConvergence /\ [][NextConvergence]_vars

\* a step that performs an iteration of the while loop
InnerIteration == startup_pc = "inner" /\ startup_inner' = startup_inner + 1

\* the iteration ran budget, publish and mapping under the query_token_len
\* it began with, and broke or retried on the realized maximum
InnerIterationDecides ==
    /\ startup_budget_info' = [query_token_len |-> startup_query_token_len]
    /\ startup_mapped_items' = UserMapping(startup_env, startup_query_token_len)
    /\ IF _max_slice_token_len(startup_mapped_items') <= startup_query_token_len
       THEN startup_pc' = "phase2" /\ startup_query_token_len' = startup_query_token_len
       ELSE /\ startup_pc' = "inner"
            /\ startup_query_token_len' = _max_slice_token_len(startup_mapped_items')
            /\ startup_error' = NoStartupError

UserFileChanged(mapped, combined) ==
    \E i \in 1..Len(mapped), j \in 1..Len(combined) :
        /\ mapped[i].file_id = combined[j].file_id
        /\ \/ mapped[i].file_tag # combined[j].file_tag
           \/ mapped[i].slice_token_len # combined[j].slice_token_len
           \/ mapped[i].slice_tokens # combined[j].slice_tokens

\* C22: when build_startup_state has left the loops without an error, every
\* user file is in the combined mapping with the file_tag, slice_token_len
\* and slice_tokens of the last inner convergence; and a combined pass that
\* maps a user file otherwise ends in mapping_stability_violation.
C22_UserMappingsStable ==
    /\ [](startup_pc \in {"converged", "returned"}
            => /\ ~UserFileChanged(startup_mapped_items, startup_combined_mapped)
               /\ startup_mapped_items
                    = UserMapping(startup_env, startup_budget_info.query_token_len)
               /\ \A i \in 1..Len(startup_mapped_items) :
                    \E j \in 1..Len(startup_combined_mapped) :
                        startup_combined_mapped[j] = startup_mapped_items[i])
    /\ [][(startup_pc = "phase2"
             /\ UserFileChanged(startup_mapped_items, startup_combined_mapped'))
            => /\ startup_pc' = "raised"
               /\ startup_error' = StartupError("startup", "mapping_stability_violation")]_vars

C22_Witness ==
    /\ startup_pc = "returned"
    /\ startup_outer = 3
    /\ startup_env.disturb = "none"
    /\ Len(startup_combined_mapped) = 3
    /\ startup_combined_mapped[1] = startup_mapped_items[1]
    /\ startup_combined_mapped[2] = startup_mapped_items[2]
    /\ startup_combined_mapped[3].file_id = "client"

(***************************************************************************)
(* logging_runtime.py: RuntimeLogger.emit.  A record is its classification *)
(* and the three fields the focus filter reads ("none" for a key the       *)
(* record does not have); sample_rate is in hundredths.                    *)
(***************************************************************************)
_LEVEL_RANK(level_name) ==
    CASE level_name = "trace" -> 10
      [] level_name = "debug" -> 20
      [] level_name = "info" -> 30
      [] level_name = "warn" -> 40
      [] level_name = "error" -> 50

REQUIRED_LIFECYCLE_CLASSIFICATIONS == {"server_start", "shutdown"}

\* variant: only error-level records are required
_record_is_required_ErrorOnly(record, level_name) == level_name = "error"

_record_is_required(record, level_name) ==
    IF level_name = "error" THEN TRUE
    ELSE record.classification \in REQUIRED_LIFECYCLE_CLASSIFICATIONS

_apply_category_filter(level_name, record) ==
    IF level_name \in {"debug", "trace"} THEN TRUE
    ELSE IF level_name # "info" THEN FALSE
    ELSE record.classification = "diagnostic"

_enabled_normalized(self, level_name, category_name, required, event) ==
    IF required THEN TRUE
    ELSE IF _LEVEL_RANK(level_name) < _LEVEL_RANK(self.level) THEN FALSE
    ELSE IF _apply_category_filter(level_name, event)
            /\ category_name \notin self.category_set THEN FALSE
    ELSE TRUE

_passes_focus(self, level_name, event) ==
    IF self.focus = "" THEN TRUE
    ELSE IF level_name \notin {"debug", "trace"} THEN TRUE
    ELSE \/ event.file_tag # "none" /\ self.focus = event.file_tag
         \/ event.slice_token # "none" /\ self.focus = event.slice_token
         \/ event.selected_base_domain # "none" /\ self.focus = event.selected_base_domain

\* random_value is what random.random() returns, in hundredths
_passes_sampling(self, level_name, random_value) ==
    IF level_name \notin {"debug", "trace"} THEN TRUE
    ELSE IF self.sample_rate <= 0 THEN FALSE
    ELSE IF self.sample_rate >= 100 THEN TRUE
    ELSE random_value < self.sample_rate

\* the logger after _passes_rate_limit, and what it returned; new_second says
\* that the clock has left the second of the window
_passes_rate_limit(self, level_name, new_second) ==
    IF level_name \notin {"debug", "trace"} THEN [self |-> self, passes |-> TRUE]
    ELSE IF self.rate_limit_per_sec <= 0 THEN [self |-> self, passes |-> FALSE]
    ELSE
      LET window_count == IF new_second THEN 0 ELSE self.window_count IN
      IF window_count >= self.rate_limit_per_sec
      THEN [self |-> [self EXCEPT !.window_count = window_count], passes |-> FALSE]
      ELSE [self |-> [self EXCEPT !.window_count = window_count + 1], passes |-> TRUE]

UpperLevel(level_name) ==
    CASE level_name = "trace" -> "TRACE"
      [] level_name = "debug" -> "DEBUG"
      [] level_name = "info" -> "INFO"
      [] level_name = "warn" -> "WARN"
      [] level_name = "error" -> "ERROR"

OutputRecord(level_name, category_name, event) ==
    [level |-> UpperLevel(level_name), category |-> category_name, event |-> event]

\* _write_line: the stream after it, and what it returned.  The stream
\* raises in write, or in flush after the line was written, or not at all
_write_line(stream, line, stream_fault) ==
    IF stream_fault = "write" THEN [stream |-> stream, ok |-> FALSE]
    ELSE IF stream_fault = "flush" THEN [stream |-> Append(stream, line), ok |-> FALSE]
    ELSE [stream |-> Append(stream, line), ok |-> TRUE]

\* emit up to the write: the logger after the filters and whether they pass
EmitFilters(self, level_name, category_name, event, event_required, random_value, new_second) ==
    IF ~_enabled_normalized(self, level_name, category_name, event_required, event)
    THEN [self |-> self, passes |-> FALSE]
    ELSE IF event_required THEN [self |-> self, passes |-> TRUE]
    ELSE IF ~_passes_focus(self, level_name, event) THEN [self |-> self, passes |-> FALSE]
    ELSE IF ~_passes_sampling(self, level_name, random_value)
    THEN [self |-> self, passes |-> FALSE]
    ELSE _passes_rate_limit(self, level_name, new_second)

\* RuntimeLogger.emit(level, category, event, required=required)
LoggerEmit(level_name, category_name, event, required, random_value, new_second, stream_fault) ==
    /\ logger_pc = "ready"
    /\ logger_call' = [level |-> level_name, category |-> category_name, event |-> event,
                       required |-> required, stream_fault |-> stream_fault]
    /\ \E event_required \in {required \/ _record_is_required(event, level_name)} :
       \E filtered \in {EmitFilters(logger, level_name, category_name, event,
                                   event_required, random_value, new_second)} :
         /\ logger' = filtered.self
         /\ IF ~filtered.passes
            THEN /\ logger_pc' = "returned"
                 /\ logger_result' = Returned(FALSE)
                 /\ UNCHANGED logger_stream
            ELSE \E emitted_line \in {_write_line(logger_stream,
                                                 OutputRecord(level_name, category_name, event),
                                                 stream_fault)} :
                   /\ logger_stream' = emitted_line.stream
                   /\ IF event_required /\ ~emitted_line.ok
                      THEN /\ logger_pc' = "raised"
                           /\ logger_result' = RaisedError("RequiredLogEmissionError")
                      ELSE /\ logger_pc' = "returned"
                           /\ logger_result' = Returned(emitted_line.ok)

LogLevels == {"trace", "debug", "info", "warn", "error"}
LogCategories == {"server", "startup"}

LogEvents ==
    [classification : {"server_start", "shutdown", "served", "diagnostic", "startup_error"},
     file_tag : {"none", "tag1"},
     slice_token : {"none"},
     selected_base_domain : {"none"}]

\* loggers as constructed, and loggers that have written one debug or trace
\* record in the current second
Loggers ==
    { lg \in [level : {"trace", "info", "error"},
              category_set : {{}, {"server"}},
              focus : {"", "tag1"},
              sample_rate : {0, 50, 100},
              rate_limit_per_sec : {0, 1},
              window_count : {0, 1}] :
        lg.window_count = 1
          => lg.rate_limit_per_sec > 0 /\ lg.sample_rate > 0 /\ lg.level = "trace" }

\* one call of emit; logger_stream holds the lines the call writes
InitLogger ==
    /\ logger_pc = "ready"
    /\ logger \in Loggers
    /\ logger_stream = <<>>
    /\ logger_call = <<>>
    /\ logger_result = <<>>
    /\ runtime_state = ConsistentState(512)
    /\ datagram = <<>>
    /\ handled = FALSE
    /\ result = Dropped
    /\ MappingVarsIdle
    /\ ServeVarsIdle
    /\ WireVarsIdle
    /\ CodecVarsIdle
    /\ BudgetVarsIdle
    /\ BuildVarsIdle
    /\ NameVarsIdle
    /\ StartupVarsIdle
    /\ ConfigVarsIdle
    /\ ClientVarsIdle

NextLogger ==
    \E level_name \in LogLevels, category_name \in LogCategories, event \in LogEvents,
       required \in BOOLEAN, random_value \in {10, 90}, new_second \in BOOLEAN,
       stream_fault \in {"none", "write", "flush"} :
        /\ LoggerEmit(level_name, category_name, event, required, random_value,
                      new_second, stream_fault)
        /\ UNCHANGED <<handlerVars, mappingVars, serveVars, wireVars, codecVars,
                       budgetVars, buildVars, nameVars, startupVars, configVars, clientVars>>

SpecLogger == InitLogger /\ [][NextLogger]_vars

\* the record of the call is a lifecycle record or has the error level
LifecycleOrError ==
    \/ logger_call.event.classification \in {"server_start", "shutdown"}
    \/ logger_call.level = "error"

EmitDone == logger_pc \in {"returned", "raised"}

\* C29: a server_start, shutdown or error-level record is written whatever
\* the level, categories, focus, sample rate and rate limit of the logger; a
\* failed write of one raises RequiredLogEmissionError, and a failed write
\* of any other record only returns false.  A call of emit with such a
\* record ends with True and the line on the stream, or, when the stream
\* fails, with RequiredLogEmissionError; a call with any other record that
\* was not passed required=True never raises, and returns False when the
\* stream fails.
C29_RequiredRecordsAlwaysWritten ==
    EmitDone =>
      IF LifecycleOrError
      THEN IF logger_call.stream_fault = "none"
           THEN /\ logger_result = Returned(TRUE)
                /\ logger_stream = <<OutputRecord(logger_call.level, logger_call.category,
                                                  logger_call.event)>>
           ELSE logger_result = RaisedError("RequiredLogEmissionError")
      ELSE ~logger_call.required
             => /\ logger_pc = "returned"
                /\ logger_call.stream_fault # "none" => logger_result = Returned(FALSE)

C29_Witness ==
    /\ logger_pc = "returned"
    /\ logger.level = "error"
    /\ logger.category_set = {}
    /\ logger.focus = "tag1"
    /\ logger.sample_rate = 0
    /\ logger.rate_limit_per_sec = 0
    /\ logger_call.event.classification = "shutdown"
    /\ logger_call.event.file_tag = "none"
    /\ logger_call.level = "trace"
    /\ ~logger_call.required
    /\ logger_result = Returned(TRUE)
    /\ Len(logger_stream) = 1

(***************************************************************************)
(* The effect of one round of the collision loop.                          *)
(***************************************************************************)
\* the positions of entries that share a (file_tag, slice_token) key with
\* another entry or hold one twice
CollidingEntries ==
    {i \in 1..Len(entries) :
        \E j \in 1..Len(entries) :
          \E a \in 1..Len(entries[i].slice_tokens), b \in 1..Len(entries[j].slice_tokens) :
            /\ i # j \/ a # b
            /\ entries[i].file_tag = entries[j].file_tag
            /\ entries[i].slice_tokens[a] = entries[j].slice_tokens[b]}

\* entry i comes before entry j in the order sorted by (file_tag, file_id,
\* publish_version), equal keys in the order of the items
SortsBefore(i, j) ==
    \/ SortKeyLess(_entry_sort_key(entries[i]), _entry_sort_key(entries[j]))
    \/ /\ ~SortKeyLess(_entry_sort_key(entries[j]), _entry_sort_key(entries[i]))
       /\ i < j

FirstColliding(i) ==
    /\ i \in CollidingEntries
    /\ \A j \in CollidingEntries \ {i} : SortsBefore(i, j)

\* entry i after a promotion: one more token character, tokens recomputed
PromotedEntry(i) ==
    [entries[i] EXCEPT
       !.slice_token_len = entries[i].slice_token_len + 1,
       !.slice_tokens = _compute_tokens(mapping_config.mapping_seed,
                                        entries[i].publish_version,
                                        entries[i].total_slices,
                                        entries[i].slice_token_len + 1)]

RoundPromotesFirstColliding ==
    \E i \in 1..Len(entries) :
      /\ FirstColliding(i)
      /\ Len(entries') = Len(entries)
      /\ entries'[i] = PromotedEntry(i)
      /\ \A j \in 1..Len(entries) : j # i => entries'[j] = entries[j]
      /\ \A j \in 1..Len(entries) :
           /\ entries'[j].file_tag = entries[j].file_tag
           /\ entries'[j].slice_token_len >= entries[j].slice_token_len

\* the minimal locally collision-free length of item k
MinLocalLen(k) ==
    _find_min_local_len(mapping_config.mapping_seed, publish_items[k].publish_version,
                        publish_items[k].total_slices, max_len_by_index[k]).token_len

\* C31: a round of the collision loop that goes on to the next round changes
\* exactly one entry, the colliding entry that is first in the order sorted
\* by (file_tag, file_id, publish_version): its token length grows by one
\* and its tokens are recomputed at the new length, while every file_tag and
\* every other entry stay as they were; the round that returns and the round
\* that raises change nothing; and no token length is ever below the item's
\* minimal locally collision-free length.
C31_RoundPromotesOneEntry ==
    /\ [][(mapping_pc = "resolving" /\ mapping_pc' = "resolving")
             => RoundPromotesFirstColliding]_vars
    /\ [][(mapping_pc = "resolving" /\ mapping_pc' # "resolving")
             => entries' = entries]_vars
    /\ [](mapping_pc \in {"resolving", "returned"}
             => \A k \in 1..Len(entries) : entries[k].slice_token_len >= MinLocalLen(k))

\* three files with one tag and equal tokens: the third, first in the sorted
\* order, was promoted twice and the second once
C31_Witness ==
    /\ mapping_pc = "returned"
    /\ mapping_rounds = 4
    /\ Len(entries) = 3
    /\ entries[1].slice_token_len = MinLocalLen(1)
    /\ entries[2].slice_token_len = MinLocalLen(2) + 1
    /\ entries[3].slice_token_len = MinLocalLen(3) + 2

(***************************************************************************)
(* The budget as a closed form.                                            *)
(***************************************************************************)
\* the wire bytes left for payload labels by the name limit
NameWireBudget ==
    MAX_DNS_NAME_WIRE_LENGTH
      - dns_name_wire_length(<<budget_config.response_label>>
                             \o budget_config.longest_domain_labels)

\* the wire bytes left for payload labels by the packet limit
PacketWireBudget ==
    PacketSizeLimit(budget_config)
      - _response_size_estimate(budget_config, budget_query_token_len,
            dns_name_wire_length(<<budget_config.response_label>>
                                 \o budget_config.longest_domain_labels))

\* the most characters whose labels of at most label_cap characters, each
\* with its length byte, take at most wire_budget bytes
ClosedFormChars(wire_budget, label_cap) ==
    IF wire_budget <= 0 THEN 0
    ELSE (wire_budget \div (label_cap + 1)) * label_cap
         + (IF wire_budget % (label_cap + 1) > 0
            THEN (wire_budget % (label_cap + 1)) - 1 ELSE 0)

ExpectedPayloadChars ==
    Min(MAX_DNS_NAME_TEXT_LENGTH,
        ClosedFormChars(Min(NameWireBudget, PacketWireBudget),
                        budget_config.dns_max_label_len))

\* n payload characters meet the name constraint and the packet constraint
BothConstraintsHold(n) ==
    /\ n + ((n + budget_config.dns_max_label_len - 1) \div budget_config.dns_max_label_len)
         <= NameWireBudget
    /\ n + ((n + budget_config.dns_max_label_len - 1) \div budget_config.dns_max_label_len)
         <= PacketWireBudget

QueryTokenFitsName ==
    /\ budget_query_token_len >= 1
    /\ budget_query_token_len <= budget_config.dns_max_label_len
    /\ 1 + (budget_query_token_len + 1) + (budget_config.file_tag_len + 1)
         + LabelsWireSum(budget_config.longest_domain_labels) <= MAX_DNS_NAME_WIRE_LENGTH

C33_StateFromLastIteration ==
    /\ [](startup_pc = "returned"
            => /\ startup_runtime_state.budget_info
                    = [query_token_len |-> startup_query_token_len]
               /\ startup_runtime_state.max_ciphertext_slice_bytes
                    = SliceBudgetAt(startup_query_token_len)
               /\ \A k \in 1..Len(startup_runtime_state.publish_items) :
                    /\ startup_runtime_state.publish_items[k].first_slice_len
                         = startup_runtime_state.max_ciphertext_slice_bytes
                    /\ startup_runtime_state.publish_items[k].slice_token_len
                         <= startup_query_token_len
               /\ \E k \in 1..Len(startup_runtime_state.publish_items) :
                    startup_runtime_state.publish_items[k].file_id = "client"
               /\ \E k \in 1..Len(startup_runtime_state.publish_items) :
                    startup_runtime_state.publish_items[k].file_id = "user1")
    /\ [][startup_query_token_len' >= startup_query_token_len]_vars

\* the state returned follows five inner iterations under other budgets and
\* two combined passes, and the user files end below the final length
C33_Witness ==
    /\ startup_pc = "returned"
    /\ startup_outer = 2
    /\ startup_query_token_len >= 9
    /\ startup_env.user_drop = 1
    /\ startup_runtime_state.max_ciphertext_slice_bytes = SliceBudgetAt(startup_query_token_len)
    /\ startup_runtime_state.publish_items[1].slice_token_len < startup_query_token_len
    /\ startup_runtime_state.publish_items[3].slice_token_len = startup_query_token_len

(***************************************************************************)
(* Termination of build_startup_state.                                     *)
(***************************************************************************)
\* the loops run on: a step that can be taken is taken
FairSpecConvergence == SpecConvergence /\ WF_vars(NextConvergence)

StartupEnded == startup_pc \in {"returned", "raised"}

\* a pass of the inner loop or of the outer loop that is followed by another
NonFinalPass ==
    \/ startup_pc = "inner" /\ startup_pc' = "inner"
    \/ startup_pc = "phase2" /\ startup_pc' = "inner"

\* C37: build_startup_state always ends, with a RuntimeState or a
\* StartupError.  query_token_len grows on every pass of the inner loop and
\* of the outer loop that is followed by another pass, it never exceeds the
\* greatest slice-token length, the outer loop performs at most 10
\* iterations, and a 10th iteration that does not converge raises
\* token_convergence_failed.
C37_StartupTerminates ==
    /\ <>StartupEnded
    /\ [](startup_pc = "returned" => startup_runtime_state # <<>>)
    /\ [](startup_pc = "raised" => startup_error # NoStartupError)
    /\ [][NonFinalPass => startup_query_token_len' > startup_query_token_len]_vars
    /\ [](startup_query_token_len <= MaxRealizedLen)
    /\ [](startup_outer <= OUTER_ITERATIONS)
    /\ [][(startup_pc = "phase2" /\ startup_outer = OUTER_ITERATIONS
            /\ startup_query_token_len' > startup_query_token_len)
            => /\ startup_pc' = "raised"
               /\ startup_error' = StartupError("startup", "token_convergence_failed")]_vars

\* the 10th iteration of the outer loop did not converge
C37_Witness ==
    /\ startup_pc = "raised"
    /\ startup_error = StartupError("startup", "token_convergence_failed")
    /\ startup_outer = OUTER_ITERATIONS
    /\ startup_query_token_len = INITIAL_QUERY_TOKEN_LEN + OUTER_ITERATIONS
    /\ startup_env.user_settle = INITIAL_QUERY_TOKEN_LEN

(***************************************************************************)
(* The budget and the responses served under it: the budget is computed,   *)
(* a RuntimeState is built whose token and slices respect it, and a slice  *)
(* is served.                                                              *)
(***************************************************************************)
\* longest domains of wire length 140 and 224
SizedDomains ==
    { <<Repeated(97, 63), Repeated(98, 63), Repeated(99, 10)>>,
      <<Repeated(97, 63), Repeated(98, 63), Repeated(99, 63), Repeated(100, 30)>> }

SizedConfigs ==
    [longest_domain_labels : SizedDomains,
     response_label : {L_rx},
     dns_edns_size : {512, 513, 1232},
     dns_max_label_len : {16, 63},
     file_tag_len : {4, 16}]

SizedQueryTokenLens == {4, 16}

SizedFileTag(config) == Repeated(103, config.file_tag_len)
SizedToken(token_len, slice_index) == Repeated(116 + slice_index, token_len)

\* the RuntimeState of a file of two slices, the first of
\* max_ciphertext_slice_bytes bytes and the last of last_len, with tokens of
\* token_len characters, for the longest domain and a shorter one
SizedRuntimeState(config, budget, token_len, last_len) ==
    [config |-> [domains |-> <<"longest.example", "ex.com">>,
                 domain_labels_by_domain |-> <<config.longest_domain_labels, <<L_ex, L_com>>>>,
                 longest_domain_labels |-> config.longest_domain_labels,
                 psk |-> Psk,
                 ttl |-> 30,
                 dns_edns_size |-> config.dns_edns_size,
                 dns_max_label_len |-> config.dns_max_label_len,
                 response_label |-> config.response_label,
                 file_tag_len |-> config.file_tag_len],
     lookup_by_key |->
         (Key(SizedFileTag(config), SizedToken(token_len, 0)) :> <<FileId1, Version1, 0>>)
         @@ (Key(SizedFileTag(config), SizedToken(token_len, 1)) :> <<FileId1, Version1, 1>>),
     slice_bytes_by_identity |->
         (<<FileId1, Version1>> :>
             <<Repeated(120, budget.max_ciphertext_slice_bytes), Repeated(121, last_len)>>),
     publish_meta_by_identity |->
         (<<FileId1, Version1>> :> <<2, budget.max_ciphertext_slice_bytes + last_len>>),
     budget_info |-> budget.budget_info]

SizedQname(state, token_len, slice_index, domain_index) ==
    <<SizedToken(token_len, slice_index), SizedFileTag(state.config)>>
    \o state.config.domain_labels_by_domain[domain_index]

\* handle_request_message on the query for a slice of the state
ServeSized(token_len, last_len, slice_index, domain_index) ==
    /\ budget_pc = "returned"
    /\ ~handled
    /\ token_len <= budget_query_token_len
    /\ last_len <= budget_outcome.value.max_ciphertext_slice_bytes
    /\ \E state \in {SizedRuntimeState(budget_config, budget_outcome.value,
                                      token_len, last_len)} :
       \E request_bytes \in {Header(4660, 256, 1, 0, 0, 0)
                            \o Question(SizedQname(state, token_len, slice_index,
                                                   domain_index), 1, 1)} :
         /\ runtime_state' = state
         /\ datagram' = request_bytes
         /\ handled' = TRUE
         /\ result' = handle_request_message(state, request_bytes)

InitSized ==
    /\ budget_pc = "entry"
    /\ budget_config \in SizedConfigs
    /\ budget_query_token_len \in SizedQueryTokenLens
    /\ budget_locals = <<>>
    /\ budget_outcome = <<>>
    /\ budget_earlier = <<>>
    /\ runtime_state = ConsistentState(512)
    /\ datagram = <<>>
    /\ handled = FALSE
    /\ result = Dropped
    /\ MappingVarsIdle
    /\ ServeVarsIdle
    /\ WireVarsIdle
    /\ CodecVarsIdle
    /\ BuildVarsIdle
    /\ LateVarsIdle

NextSized ==
    \/ BudgetEntry /\ UNCHANGED <<handlerVars, mappingVars, serveVars, wireVars, codecVars, buildVars, lateVars>>
    \/ BudgetCandidateRejected /\ UNCHANGED <<handlerVars, mappingVars, serveVars, wireVars, codecVars, buildVars, lateVars>>
    \/ BudgetCandidateAccepted /\ UNCHANGED <<handlerVars, mappingVars, serveVars, wireVars, codecVars, buildVars, lateVars>>
    \/ BudgetFinish /\ UNCHANGED <<handlerVars, mappingVars, serveVars, wireVars, codecVars, buildVars, lateVars>>
    \/ \E token_len \in {1, 4, 16}, last_len \in {1, 2, 53, 56}, slice_index \in {0, 1}, domain_index \in {1, 2} :
         ServeSized(token_len, last_len, slice_index, domain_index)
           /\ UNCHANGED <<mappingVars, serveVars, restVars>>

SpecSized == InitSized /\ [][NextSized]_vars

\* the CNAME target of the response, as the client reads it
ServedTarget ==
    extract_response_cname_labels(result.response, 4660,
        SubSeq(parse_request(datagram).question.qname_labels, 1,
               Len(parse_request(datagram).question.qname_labels)), 1, 1)

SizedServed == budget_pc = "returned" /\ handled

\* C34: every response that serves a slice of a RuntimeState whose tokens
\* are at most query_token_len long and whose slices are at most
\* max_ciphertext_slice_bytes long is at most budget_info.response_size_limit
\* bytes long, and its CNAME target, expanded to payload labels,
\* response_label and domain labels, has wire length at most 255; the base32
\* text of its record is at most max_payload_chars characters.
C34_ServedWithinBudget ==
    SizedServed =>
      /\ ~result.dropped
      /\ result.log.classification = "served"
      /\ Len(result.response) <= budget_outcome.value.budget_info.response_size_limit
      /\ ServedTarget.ok
      /\ dns_name_wire_length(ServedTarget.value) <= MAX_DNS_NAME_WIRE_LENGTH
      /\ LabelsWireSum(ServedTarget.value)
           - LabelsWireSum(<<runtime_state.config.response_label>>)
           - LabelsWireSum(SubSeq(parse_request(datagram).question.qname_labels, 3,
                                  Len(parse_request(datagram).question.qname_labels)))
           - (Len(ServedTarget.value) - 1
              - (Len(parse_request(datagram).question.qname_labels) - 2))
           <= budget_outcome.value.budget_info.max_payload_chars

\* a full slice served under the longest domain with a token of
\* query_token_len characters, where the packet limit is the binding one
C34_Witness ==
    /\ SizedServed
    /\ result.log.classification = "served"
    /\ PacketWireBudget < NameWireBudget
    /\ result.log.selected_base_domain = "longest.example"
    /\ Len(result.log.slice_token) = budget_query_token_len
    /\ result.log.slice_index = 0

(***************************************************************************)
(* Requests served from the state that build_runtime_state returned for    *)
(* the output of apply_mapping.                                            *)
(***************************************************************************)
\* the query slice_token.file_tag.domain, or a query for a token nobody owns
BuiltRequest(state, key, domain_index) ==
    Header(4660, 256, 1, 0, 0, 0)
    \o Question(<<key[2], key[1]>> \o state.config.domain_labels_by_domain[domain_index], 1, 1)

BuiltKeys(state) == DOMAIN state.lookup_by_key \cup {Key(L_g7, L_zz)}

\* handle_request_message on the returned state
ServeBuilt(key, domain_index) ==
    /\ build_pc = "returned"
    /\ mapping_pc = "returned"
    /\ ~handled
    /\ key \in BuiltKeys(build_outcome.value)
    /\ \E request_bytes \in {BuiltRequest(build_outcome.value, key, domain_index)} :
         /\ runtime_state' = build_outcome.value
         /\ datagram' = request_bytes
         /\ handled' = TRUE
         /\ result' = handle_request_message(build_outcome.value, request_bytes)

\* apply_mapping is started on a batch of one or two files, with room for
\* tokens of up to three characters or of one character only
InitBuilt ==
    /\ InitStartup
    /\ mapping_pc = "start"
    /\ publish_items \in LoopBatches
    /\ Len(publish_items) <= 2
    /\ mapping_config \in {MappingConfigOf(LongDomain(52)), MappingConfigOf(LongDomain(54))}

\* the keys a request may name once the state is built
BuiltKeysNow ==
    IF build_pc = "returned" /\ build_outcome.ok THEN BuiltKeys(build_outcome.value) ELSE {}

NextBuilt ==
    \/ ApplyMappingDerive /\ UNCHANGED <<handlerVars, serveVars, restVars>>
    \/ ApplyMappingReturn /\ UNCHANGED <<handlerVars, serveVars, restVars>>
    \/ ApplyMappingCollision /\ UNCHANGED <<handlerVars, serveVars, restVars>>
    \/ ApplyMappingPromote /\ UNCHANGED <<handlerVars, serveVars, restVars>>
    \/ BuildFromMapping /\ UNCHANGED <<handlerVars, mappingVars, serveVars, wireVars, codecVars, budgetVars, lateVars>>
    \/ BuildItem /\ UNCHANGED <<handlerVars, mappingVars, serveVars, wireVars, codecVars, budgetVars, lateVars>>
    \/ BuildReturn /\ UNCHANGED <<handlerVars, mappingVars, serveVars, wireVars, codecVars, budgetVars, lateVars>>
    \/ \E key \in BuiltKeysNow, domain_index \in {1, 2} :
         ServeBuilt(key, domain_index) /\ UNCHANGED <<mappingVars, serveVars, restVars>>

SpecBuilt == InitBuilt /\ [][NextBuilt]_vars

RuntimeFaultReasons ==
    {"identity_missing", "slice_index_out_of_bounds", "publish_meta_missing",
     "slice_table_length_mismatch"}

\* the value of a lookup key names a slice that both tables hold
LookupValueSound(state, key) ==
    LET value == state.lookup_by_key[key]
        identity == <<value[1], value[2]>>
    IN /\ identity \in DOMAIN state.slice_bytes_by_identity
       /\ identity \in DOMAIN state.publish_meta_by_identity
       /\ 0 <= value[3]
       /\ value[3] < state.publish_meta_by_identity[identity][1]
       /\ state.publish_meta_by_identity[identity][1]
            = Len(state.slice_bytes_by_identity[identity])

BuiltFromMapping == build_pc = "returned" /\ mapping_pc = "returned"

\* C35: in the RuntimeState that build_runtime_state returns for the output
\* of apply_mapping, every lookup value names an identity present in both
\* slice_bytes_by_identity and publish_meta_by_identity with
\* 0 <= slice_index < total_slices = length of the slice table; no request
\* served from it is answered with identity_missing,
\* slice_index_out_of_bounds, publish_meta_missing or
\* slice_table_length_mismatch.
C35_LookupValuesSound ==
    BuiltFromMapping =>
      /\ build_outcome.ok
      /\ \A key \in DOMAIN build_outcome.value.lookup_by_key :
            LookupValueSound(build_outcome.value, key)
      /\ handled =>
           /\ result.log.classification # "runtime_fault"
           /\ result.log.reason_code \notin RuntimeFaultReasons

\* the last slice of the second of two files is served from the built state
C35_Witness ==
    /\ BuiltFromMapping
    /\ handled
    /\ result.log.classification = "served"
    /\ Len(build_items) = 2
    /\ result.log.file_id = build_items[2].file_id
    /\ result.log.slice_index = build_items[2].total_slices - 1
    /\ result.log.slice_index >= 1

(***************************************************************************)
(* config.py: _normalize_response_label, and the queries for published     *)
(* slices under the label it accepted                                      *)
(***************************************************************************)
\* TOKEN_ALPHABET = set("abcdefghijklmnopqrstuvwxyz0123456789")
TOKEN_ALPHABET == (97..122) \cup (48..57)

\* str.strip(): leading and trailing whitespace is removed
IsSpaceByte(b) == b \in {9, 10, 11, 12, 13, 32}

RECURSIVE StripLeft(_)
StripLeft(text) ==
    IF text # <<>> /\ IsSpaceByte(text[1]) THEN StripLeft(Tail(text)) ELSE text

RECURSIVE StripRight(_)
StripRight(text) ==
    IF text # <<>> /\ IsSpaceByte(text[Len(text)])
    THEN StripRight(SubSeq(text, 1, Len(text) - 1)) ELSE text

Strip(text) == StripRight(StripLeft(text))

\* LABEL_RE = ^[a-z0-9](?:[a-z0-9-]{0,61}[a-z0-9])?$
LabelReMatches(label) ==
    /\ Len(label) >= 1
    /\ Len(label) <= 63
    /\ label[1] \in TOKEN_ALPHABET
    /\ label[Len(label)] \in TOKEN_ALPHABET
    /\ \A i \in 1..Len(label) : label[i] \in TOKEN_ALPHABET \cup {45}

\* variant: a label made of token characters only is accepted
_normalize_response_label_AnyLabel(value) ==
    LET label == Lower(Strip(value)) IN
    IF label = <<>> THEN RaisedStartupError("config", "invalid_config")
    ELSE IF ~LabelReMatches(label) THEN RaisedStartupError("config", "invalid_config")
    ELSE Return(label)

_normalize_response_label(value) ==
    LET label == Lower(Strip(value)) IN
    IF label = <<>> THEN RaisedStartupError("config", "invalid_config")
    ELSE IF ~LabelReMatches(label) THEN RaisedStartupError("config", "invalid_config")
    ELSE IF \A i \in 1..Len(label) : label[i] \in TOKEN_ALPHABET
    THEN RaisedStartupError("config", "invalid_config")
    ELSE Return(label)

\* "r-x", " A-AA", "", "aaaa", "baaa", "BAAA", "-ab", "ab-", "a_b"
RawResponseLabels ==
    { L_rx, <<32, 65, 45, 65, 65>>, <<>>, <<97, 97, 97, 97>>, <<98, 97, 97, 97>>,
      <<66, 65, 65, 65>>, <<45, 97, 98>>, <<97, 98, 45>>, <<97, 95, 98>> }

\* build_config: the response label is normalized or refused
ConfigNormalize ==
    /\ config_pc = "start"
    /\ config_outcome' = _normalize_response_label(config_raw)
    /\ config_pc' = IF config_outcome'.ok THEN "returned" ELSE "raised"
    /\ UNCHANGED config_raw

\* the state build_runtime_state returned, with the response label of the
\* configuration that build_config accepted
ConfiguredState ==
    [build_outcome.value EXCEPT !.config.response_label = config_outcome.value]

\* handle_request_message on the query slice_token.file_tag.domain
ServeConfigured(key, domain_index) ==
    /\ config_pc = "returned"
    /\ build_pc = "returned"
    /\ mapping_pc = "returned"
    /\ ~handled
    /\ key \in DOMAIN build_outcome.value.lookup_by_key
    /\ \E state \in {ConfiguredState} :
       \E request_bytes \in {BuiltRequest(state, key, domain_index)} :
         /\ runtime_state' = state
         /\ datagram' = request_bytes
         /\ handled' = TRUE
         /\ result' = handle_request_message(state, request_bytes)

ConfiguredKeysNow ==
    IF build_pc = "returned" /\ build_outcome.ok
    THEN DOMAIN build_outcome.value.lookup_by_key ELSE {}

InitConfigured ==
    /\ runtime_state = ConsistentState(512)
    /\ datagram = <<>>
    /\ handled = FALSE
    /\ result = Dropped
    /\ ServeVarsIdle
    /\ WireVarsIdle
    /\ CodecVarsIdle
    /\ BudgetVarsIdle
    /\ NameVarsIdle
    /\ StartupVarsIdle
    /\ LoggerVarsIdle
    /\ ClientVarsIdle
    /\ config_pc = "start"
    /\ config_raw \in RawResponseLabels
    /\ config_outcome = <<>>
    /\ publish_items \in LoopBatches
    /\ Len(publish_items) <= 2
    /\ mapping_config \in {MappingConfigOf(LongDomain(52)), MappingConfigOf(LongDomain(54))}
    /\ mapping_digests \in DigestAssignments(publish_items)
    /\ mapping_pc = "start"
    /\ entries = <<>>
    /\ max_len_by_index = <<>>
    /\ canonical_order = <<>>
    /\ mapping_error = NoStartupError
    /\ mapping_rounds = 0
    /\ build_pc = "idle"
    /\ build_items = <<>>
    /\ build_locals = <<>>
    /\ build_outcome = <<>>

ConfigAccepted == config_pc = "returned"

NextConfigured ==
    \/ ConfigNormalize /\ UNCHANGED <<handlerVars, mappingVars, serveVars, wireVars, codecVars, budgetVars, buildVars, nameVars, startupVars, loggerVars, clientVars>>
    \/ ConfigAccepted /\ ApplyMappingDerive /\ UNCHANGED <<handlerVars, serveVars, restVars>>
    \/ ConfigAccepted /\ ApplyMappingReturn /\ UNCHANGED <<handlerVars, serveVars, restVars>>
    \/ ConfigAccepted /\ ApplyMappingCollision /\ UNCHANGED <<handlerVars, serveVars, restVars>>
    \/ ConfigAccepted /\ ApplyMappingPromote /\ UNCHANGED <<handlerVars, serveVars, restVars>>
    \/ BuildFromMapping /\ UNCHANGED <<handlerVars, mappingVars, serveVars, wireVars, codecVars, budgetVars, lateVars>>
    \/ BuildItem /\ UNCHANGED <<handlerVars, mappingVars, serveVars, wireVars, codecVars, budgetVars, lateVars>>
    \/ BuildReturn /\ UNCHANGED <<handlerVars, mappingVars, serveVars, wireVars, codecVars, budgetVars, lateVars>>
    \/ \E key \in ConfiguredKeysNow, domain_index \in {1, 2} :
         ServeConfigured(key, domain_index) /\ UNCHANGED <<mappingVars, serveVars, restVars>>

SpecConfigured == InitConfigured /\ [][NextConfigured]_vars

\* C36: under a response label that build_config accepted, no file tag of
\* the mapping and no lookup key equals the response label, and the query
\* slice_token.file_tag.domain for any lookup key under any configured
\* domain is not taken for a follow-up: it reaches the lookup and is served.
C36_FollowupNeverShadowsSlice ==
    /\ (ConfigAccepted /\ mapping_pc = "returned") =>
          \A p \in 1..Len(entries) : entries[p].file_tag # config_outcome.value
    /\ (ConfigAccepted /\ build_pc = "returned" /\ build_outcome.ok) =>
          \A key \in DOMAIN build_outcome.value.lookup_by_key :
              /\ key[1] # config_outcome.value
              /\ ~_is_followup_query(<<key[2], key[1]>>, config_outcome.value)
    /\ (ConfigAccepted /\ handled) =>
          /\ result.log.classification = "served"
          /\ result.log.reason_code = "slice_served"

\* " A-AA" was normalized to "a-aa" and a slice of the file tagged "aaaa" is
\* served under the second domain
C36_Witness ==
    /\ ConfigAccepted
    /\ config_raw # config_outcome.value
    /\ config_outcome.value = <<97, 45, 97, 97>>
    /\ handled
    /\ result.log.classification = "served"
    /\ result.log.file_tag = <<97, 97, 97, 97>>
    /\ result.log.selected_base_domain = "zz.net"

(***************************************************************************)
(* serve_runtime: what one iteration of the loop adds to the counters      *)
(***************************************************************************)
\* the iteration just taken received a datagram
ReceivedDatagram ==
    iterations' = iterations + 1 /\ last_receive' \in {"datagram", "handler_raised"}

\* one counter went up by one and the others stayed
ExactlyOneByOne ==
    \E name \in DOMAIN counters : counters' = [counters EXCEPT ![name] = @ + 1]

\* C38 as stated: every received datagram increments exactly one of the
\* counters served, followup, miss, runtime_fault, dropped by exactly one,
\* on every path, the unhandled handler exception included.
C38_Original == [][ReceivedDatagram => ExactlyOneByOne]_vars

\* the iteration just taken received a datagram and the handler returned
HandlerReturned == iterations' = iterations + 1 /\ last_receive' = "datagram"

\* the iteration just taken received a datagram and the handler raised
HandlerEscaped == iterations' = iterations + 1 /\ last_receive' = "handler_raised"

\* a counter of sent responses went up
SentCounterRose ==
    \/ counters'.served > counters.served
    \/ counters'.followup > counters.followup
    \/ counters'.miss > counters.miss

\* C38: a received datagram whose handler call returns increments exactly
\* one counter by exactly one (classified and sent, dropped, send error); a
\* datagram whose handler call raises increments runtime_fault and then one
\* counter more: dropped when the datagram cannot be parsed, runtime_fault
\* again when the SERVFAIL fallback is sent or its send fails; a receive error
\* increments runtime_fault; no other step changes a counter; served, followup
\* and miss rise only with a response that was sent; the shutdown record
\* carries the counters.
C38_CountersPerEvent ==
    /\ [][HandlerReturned => ExactlyOneByOne]_vars
    /\ [][HandlerEscaped =>
            counters' = IF parse_request(datagram').ok
                        THEN [counters EXCEPT !.runtime_fault = @ + 2]
                        ELSE [counters EXCEPT !.runtime_fault = @ + 1,
                                              !.dropped = @ + 1]]_vars
    /\ [][(iterations' = iterations + 1 /\ last_receive' = "recv_error") =>
            counters' = [counters EXCEPT !.runtime_fault = @ + 1]]_vars
    /\ [][(iterations' = iterations
           \/ last_receive' \in {"timeout", "keyboard_interrupt"}) =>
            counters' = counters]_vars
    /\ [][SentCounterRose => Len(sent') = Len(sent) + 1]_vars
    /\ [](serve_pc = "returned" =>
            emitted[Len(emitted)] = ShutdownRecord(stop_state.reason, counters))

\* one datagram was received, the handler raised, and the SERVFAIL fallback
\* was sent: runtime_fault stands at two
C38_Witness ==
    /\ iterations = 1
    /\ last_receive = "handler_raised"
    /\ counters.runtime_fault = 2
    /\ Len(sent) = 1

(***************************************************************************)
(* client_runtime.py: _parse_slice_record, _decrypt_and_verify_slice and   *)
(* _download_slices                                                        *)
(***************************************************************************)
ClientError(code, message) == [ok |-> FALSE, kind |-> "ClientError", code |-> code, message |-> message]

\* what base32_decode_no_pad raises
ValueError(message) == [ok |-> FALSE, kind |-> "ValueError", code |-> "none", message |-> message]

_parse_slice_record(payload_text) ==
    LET decoded == base32_decode_no_pad(payload_text) IN
    IF ~decoded.ok THEN ValueError(decoded.message)
    ELSE
      LET record == decoded.value IN
      IF Len(record) < 12 THEN ClientError("EXIT_PARSE", "slice record is too short")
      ELSE IF record[1] # PAYLOAD_PROFILE_V1_BYTE
      THEN ClientError("EXIT_PARSE", "unsupported payload profile")
      ELSE IF record[2] # PAYLOAD_FLAGS_V1_BYTE
      THEN ClientError("EXIT_PARSE", "unsupported payload flags")
      ELSE
        LET cipher_len == UnpackU16(record, 2) IN
        IF cipher_len <= 0 THEN ClientError("EXIT_PARSE", "cipher_len must be positive")
        ELSE IF Len(record) # 4 + cipher_len + PAYLOAD_MAC_TRUNC_LEN
        THEN ClientError("EXIT_PARSE", "slice record length mismatch")
        ELSE Return([ciphertext |-> SubSeq(record, 5, 4 + cipher_len),
                     mac |-> SubSeq(record, 5 + cipher_len, Len(record))])

_expected_mac(mac_key_bytes, file_id, publish_version, slice_index, total_slices, compressed_size, ciphertext) ==
    SubSeq(hmac_sha256(mac_key_bytes,
                       PAYLOAD_MAC_MESSAGE_LABEL
                       \o file_id \o <<124>> \o publish_version
                       \o <<124>> \o AsciiDigits(slice_index)
                       \o <<124>> \o AsciiDigits(total_slices)
                       \o <<124>> \o AsciiDigits(compressed_size)
                       \o <<124>> \o ciphertext),
           1, PAYLOAD_MAC_TRUNC_LEN)

\* variant: the MAC of the record is not compared
_decrypt_and_verify_slice_MacIgnored(enc_key_bytes, mac_key_bytes, file_id, publish_version, slice_index, total_slices, compressed_size, ciphertext, mac) ==
    LET plaintext == _xor_bytes(ciphertext,
                                _keystream_bytes(enc_key_bytes, file_id, publish_version,
                                                 slice_index, Len(ciphertext)))
    IN IF plaintext = <<>> THEN ClientError("EXIT_CRYPTO", "decrypted slice is empty")
       ELSE Return(plaintext)

_decrypt_and_verify_slice(enc_key_bytes, mac_key_bytes, file_id, publish_version, slice_index, total_slices, compressed_size, ciphertext, mac) ==
    IF _expected_mac(mac_key_bytes, file_id, publish_version, slice_index, total_slices,
                     compressed_size, ciphertext) # mac
    THEN ClientError("EXIT_CRYPTO", "MAC verification failed")
    ELSE
      LET plaintext == _xor_bytes(ciphertext,
                                  _keystream_bytes(enc_key_bytes, file_id, publish_version,
                                                   slice_index, Len(ciphertext)))
      IN IF plaintext = <<>> THEN ClientError("EXIT_CRYPTO", "decrypted slice is empty")
         ELSE Return(plaintext)

\* sorted(missing)
RECURSIVE SortedMissing(_)
SortedMissing(indexes) ==
    IF indexes = {} THEN <<>>
    ELSE LET least == CHOOSE i \in indexes : \A j \in indexes : i <= j
         IN <<least>> \o SortedMissing(indexes \ {least})

\* the failures after which the download gives up are counted up to this
MAX_CONSECUTIVE_TIMEOUTS == 1

MaxClientSlices == 2
MaxClientRounds == 2

ClientParams ==
    [psk : {Psk}, file_id : {FileId1}, publish_version : {Version1},
     total_slices : 1..MaxClientSlices, compressed_size : {3},
     max_rounds : 1..MaxClientRounds, domain_count : {1, 2}]

\* the bytes of slice slice_index on the server
ServerSliceBytes(slice_index) == <<120 + slice_index>>

\* the payload text of the record the server builds for a slice
ServerPayloadText(params, slice_index, total_slices, compressed_size) ==
    base32_lower_no_pad(
        build_slice_record(params.psk, params.file_id, params.publish_version,
                           slice_index, total_slices, compressed_size,
                           ServerSliceBytes(slice_index)).value)

\* what a resolver may hand back as payload for the query of slice_index:
\* the record of that slice, the record of another slice, records made for
\* another total_slices or compressed_size, a record cut short, a record
\* with a byte too many, and text that is not base32
ResolverPayloads(params, slice_index) ==
    { ServerPayloadText(params, slice_index, params.total_slices, params.compressed_size),
      ServerPayloadText(params, (slice_index + 1) % (params.total_slices + 1),
                        params.total_slices + 1, params.compressed_size),
      ServerPayloadText(params, slice_index, params.total_slices + 1, params.compressed_size),
      ServerPayloadText(params, slice_index, params.total_slices, params.compressed_size + 1),
      SubSeq(ServerPayloadText(params, slice_index, params.total_slices,
                               params.compressed_size), 1, 16),
      base32_lower_no_pad(
          build_slice_record(params.psk, params.file_id, params.publish_version,
                             slice_index, params.total_slices, params.compressed_size,
                             ServerSliceBytes(slice_index)).value \o <<0>>),
      <<49>> }

ClientLoopVars == <<client_missing, client_stored, client_consecutive_timeouts, client_domain_index, client_current_missing, client_progress_this_round, client_queries, client_accepted, client_last_outcome>>

\* while missing: rounds += 1, the max_rounds test, and the start of the for loop
ClientRoundBegin ==
    /\ client_pc = "while"
    /\ client_missing # {}
    /\ client_rounds' = client_rounds + 1
    /\ IF client_rounds' > client_params.max_rounds
       THEN /\ client_pc' = "raised"
            /\ client_error' = ClientError("EXIT_TRANSPORT", "max rounds exhausted")
            /\ UNCHANGED ClientLoopVars
       ELSE /\ client_pc' = "for"
            /\ client_progress_this_round' = FALSE
            /\ client_current_missing' = SortedMissing(client_missing)
            /\ client_queries' = 0
            /\ UNCHANGED <<client_missing, client_stored, client_consecutive_timeouts,
                           client_domain_index, client_accepted, client_last_outcome,
                           client_error>>
    /\ UNCHANGED client_params

\* while missing found false: return stored
ClientReturn ==
    /\ client_pc = "while"
    /\ client_missing = {}
    /\ client_pc' = "returned"
    /\ UNCHANGED <<client_params, client_rounds, ClientLoopVars, client_error>>

\* an iteration of the for loop that finds the no-progress timeout elapsed
ClientNoProgress ==
    /\ client_pc = "for"
    /\ client_current_missing # <<>>
    /\ client_pc' = "raised"
    /\ client_error' = ClientError("EXIT_TRANSPORT", "no-progress timeout")
    /\ UNCHANGED <<client_params, client_rounds, ClientLoopVars>>

\* variant: the failures are counted but never give the download up
ClientQueryFailed_NeverGivesUp(failure) ==
    /\ client_pc = "for"
    /\ client_current_missing # <<>>
    /\ client_queries' = client_queries + 1
    /\ client_last_outcome' = failure
    /\ client_consecutive_timeouts' = client_consecutive_timeouts + 1
    /\ IF FALSE
       THEN /\ client_pc' = "raised"
            /\ client_error' = ClientError("EXIT_TRANSPORT", "transport retries exhausted")
            /\ UNCHANGED <<client_domain_index, client_current_missing>>
       ELSE /\ client_domain_index' = (client_domain_index + 1) % client_params.domain_count
            /\ client_current_missing' = Tail(client_current_missing)
            /\ UNCHANGED <<client_pc, client_error>>
    /\ UNCHANGED <<client_params, client_rounds, client_missing, client_stored,
                   client_progress_this_round, client_accepted>>

\* an iteration of the for loop in which _send_dns_query raises
\* RetryableTransport or _parse_response_for_cname raises
ClientQueryFailed(failure) ==
    /\ client_pc = "for"
    /\ client_current_missing # <<>>
    /\ client_queries' = client_queries + 1
    /\ client_last_outcome' = failure
    /\ client_consecutive_timeouts' = client_consecutive_timeouts + 1
    /\ IF client_consecutive_timeouts' > MAX_CONSECUTIVE_TIMEOUTS
       THEN /\ client_pc' = "raised"
            /\ client_error' = ClientError("EXIT_TRANSPORT", "transport retries exhausted")
            /\ UNCHANGED <<client_domain_index, client_current_missing>>
       ELSE /\ client_domain_index' = (client_domain_index + 1) % client_params.domain_count
            /\ client_current_missing' = Tail(client_current_missing)
            /\ UNCHANGED <<client_pc, client_error>>
    /\ UNCHANGED <<client_params, client_rounds, client_missing, client_stored,
                   client_progress_this_round, client_accepted>>

\* an iteration of the for loop in which the response parsed but
\* _extract_payload_text raises
ClientPayloadRefused ==
    /\ client_pc = "for"
    /\ client_current_missing # <<>>
    /\ client_queries' = client_queries + 1
    /\ client_last_outcome' = "answered"
    /\ client_consecutive_timeouts' = 0
    /\ client_pc' = "raised"
    /\ client_error' = ClientError("EXIT_PARSE", "CNAME target suffix mismatch")
    /\ UNCHANGED <<client_params, client_rounds, client_missing, client_stored,
                   client_domain_index, client_current_missing,
                   client_progress_this_round, client_accepted>>

\* _parse_slice_record and _decrypt_and_verify_slice on the payload text
ClientVerified(params, slice_index, payload_text) ==
    LET parsed == _parse_slice_record(payload_text) IN
    IF ~parsed.ok THEN parsed
    ELSE _decrypt_and_verify_slice(
             _enc_key(params.psk, params.file_id, params.publish_version),
             _mac_key(params.psk, params.file_id, params.publish_version),
             params.file_id, params.publish_version, slice_index,
             params.total_slices, params.compressed_size,
             parsed.value.ciphertext, parsed.value.mac)

\* an iteration of the for loop in which the response gave a payload text
ClientQueryAnswered(payload_text) ==
    /\ client_pc = "for"
    /\ client_current_missing # <<>>
    /\ client_queries' = client_queries + 1
    /\ client_last_outcome' = "answered"
    /\ client_consecutive_timeouts' = 0
    /\ \E slice_index \in {Head(client_current_missing)} :
       \E slice_plain \in {ClientVerified(client_params, slice_index, payload_text)} :
         IF ~slice_plain.ok
         THEN /\ client_pc' = "raised"
              /\ client_error' = slice_plain
              /\ UNCHANGED <<client_missing, client_stored, client_current_missing,
                             client_progress_this_round, client_accepted>>
         ELSE IF slice_index \notin DOMAIN client_stored
         THEN /\ client_stored' = (slice_index :> slice_plain.value) @@ client_stored
              /\ client_missing' = client_missing \ {slice_index}
              /\ client_progress_this_round' = TRUE
              /\ client_accepted' = Append(client_accepted,
                                           [slice_index |-> slice_index,
                                            payload_text |-> payload_text])
              /\ client_current_missing' = Tail(client_current_missing)
              /\ UNCHANGED <<client_pc, client_error>>
         ELSE IF client_stored[slice_index] # slice_plain.value
         THEN /\ client_pc' = "raised"
              /\ client_error' = ClientError("EXIT_CRYPTO", "duplicate slice mismatch")
              /\ UNCHANGED <<client_missing, client_stored, client_current_missing,
                             client_progress_this_round, client_accepted>>
         ELSE /\ client_current_missing' = Tail(client_current_missing)
              /\ UNCHANGED <<client_pc, client_error, client_missing, client_stored,
                             client_progress_this_round, client_accepted>>
    /\ UNCHANGED <<client_params, client_rounds, client_domain_index>>

\* the for loop is exhausted: the no-progress test after it
ClientRoundEnd(timed_out) ==
    /\ client_pc = "for"
    /\ client_current_missing = <<>>
    /\ IF ~client_progress_this_round /\ timed_out
       THEN /\ client_pc' = "raised"
            /\ client_error' = ClientError("EXIT_TRANSPORT", "no-progress timeout")
       ELSE /\ client_pc' = "while"
            /\ UNCHANGED client_error
    /\ UNCHANGED <<client_params, client_rounds, ClientLoopVars>>

InitClient ==
    /\ runtime_state = ConsistentState(512)
    /\ datagram = <<>>
    /\ handled = FALSE
    /\ result = Dropped
    /\ MappingVarsIdle
    /\ ServeVarsIdle
    /\ WireVarsIdle
    /\ CodecVarsIdle
    /\ BudgetVarsIdle
    /\ BuildVarsIdle
    /\ NameVarsIdle
    /\ StartupVarsIdle
    /\ LoggerVarsIdle
    /\ ConfigVarsIdle
    /\ client_pc = "while"
    /\ client_params \in ClientParams
    /\ client_missing = 0..(client_params.total_slices - 1)
    /\ client_stored = <<>>
    /\ client_rounds = 0
    /\ client_consecutive_timeouts = 0
    /\ client_domain_index = 0
    /\ client_current_missing = <<>>
    /\ client_progress_this_round = FALSE
    /\ client_queries = 0
    /\ client_accepted = <<>>
    /\ client_last_outcome = "none"
    /\ client_error = <<>>

ClientPayloadsNow ==
    IF client_pc = "for" /\ client_current_missing # <<>>
    THEN ResolverPayloads(client_params, Head(client_current_missing)) ELSE {}

clientFrame == <<handlerVars, mappingVars, serveVars, wireVars, codecVars, budgetVars, buildVars, nameVars, startupVars, loggerVars, configVars>>

NextClient ==
    \/ ClientRoundBegin /\ UNCHANGED clientFrame
    \/ ClientReturn /\ UNCHANGED clientFrame
    \/ ClientNoProgress /\ UNCHANGED clientFrame
    \/ \E failure \in {"transport", "parse"} : ClientQueryFailed(failure) /\ UNCHANGED clientFrame
    \/ ClientPayloadRefused /\ UNCHANGED clientFrame
    \/ \E payload_text \in ClientPayloadsNow : ClientQueryAnswered(payload_text) /\ UNCHANGED clientFrame
    \/ \E timed_out \in BOOLEAN : ClientRoundEnd(timed_out) /\ UNCHANGED clientFrame

SpecClient == InitClient /\ [][NextClient]_vars

AllSlices == 0..(client_params.total_slices - 1)

\* the record of an accepted entry parses and carries the MAC of its slice
\* index, total_slices and compressed_size, and what is stored is its plaintext
AcceptedVerified(entry) ==
    LET parsed == _parse_slice_record(entry.payload_text) IN
    /\ parsed.ok
    /\ parsed.value.mac =
          _expected_mac(_mac_key(client_params.psk, client_params.file_id,
                                 client_params.publish_version),
                        client_params.file_id, client_params.publish_version,
                        entry.slice_index, client_params.total_slices,
                        client_params.compressed_size, parsed.value.ciphertext)
    /\ client_stored[entry.slice_index] =
          _xor_bytes(parsed.value.ciphertext,
                     _keystream_bytes(_enc_key(client_params.psk, client_params.file_id,
                                               client_params.publish_version),
                                      client_params.file_id, client_params.publish_version,
                                      entry.slice_index, Len(parsed.value.ciphertext)))

\* C39: at every point of _download_slices missing and the keys of stored
\* are disjoint and together make range(total_slices); every stored slice
\* was stored after its record parsed and its MAC verified for that
\* slice_index, total_slices and compressed_size; a stored slice is never
\* overwritten; the function returns only when stored holds every index.
C39_StoredAndMissingPartition ==
    /\ [](/\ client_missing \cap DOMAIN client_stored = {}
          /\ client_missing \cup DOMAIN client_stored = AllSlices)
    /\ [](/\ \A k \in 1..Len(client_accepted) : AcceptedVerified(client_accepted[k])
          /\ \A i \in DOMAIN client_stored :
                \E k \in 1..Len(client_accepted) : client_accepted[k].slice_index = i)
    /\ [][\A i \in DOMAIN client_stored :
            i \in DOMAIN client_stored' /\ client_stored'[i] = client_stored[i]]_vars
    /\ [](client_pc = "returned" => DOMAIN client_stored = AllSlices)

\* two slices were stored in two rounds, the second after a failed query,
\* and the function returned
C39_Witness ==
    /\ client_pc = "returned"
    /\ client_params.total_slices = 2
    /\ client_rounds = 2
    /\ Len(client_accepted) = 2
    /\ client_stored[0] = ServerSliceBytes(0)
    /\ client_stored[1] = ServerSliceBytes(1)

\* _download_slices as a running thread: every socket call has a timeout
\* and every sleep is finite, so the step at hand is eventually taken
FairSpecClient == SpecClient /\ WF_vars(NextClient)

ClientEnded == client_pc \in {"returned", "raised"}

\* the step just taken was a query that failed in transport or in the
\* parse of the response
QueryJustFailed ==
    client_queries' = client_queries + 1 /\ client_last_outcome' \in {"transport", "parse"}

\* the step just taken was a query whose response parsed
QueryJustAnswered ==
    client_queries' = client_queries + 1 /\ client_last_outcome' = "answered"

TransportAbort(message) ==
    /\ client_pc = "raised"
    /\ client_error = ClientError("EXIT_TRANSPORT", message)

\* C40: _download_slices ends whatever the resolver does; it runs at most
\* max_rounds rounds of at most total_slices queries each; a transport or
\* response-parse failure adds one to the consecutive-failure counter and
\* then either aborts or rotates to the next base domain and moves on; a
\* parsed response sets the counter to 0; the counter exceeds
\* MAX_CONSECUTIVE_TIMEOUTS only in the abort "transport retries exhausted",
\* and rounds exceeds max_rounds only in the abort "max rounds exhausted".
C40_DownloadTerminates ==
    /\ <>ClientEnded
    /\ [](client_pc = "for" => client_rounds <= client_params.max_rounds)
    /\ [](client_queries <= client_params.total_slices)
    /\ [][QueryJustFailed =>
            /\ client_consecutive_timeouts' = client_consecutive_timeouts + 1
            /\ \/ /\ client_consecutive_timeouts' > MAX_CONSECUTIVE_TIMEOUTS
                  /\ client_pc' = "raised"
                  /\ client_error' = ClientError("EXIT_TRANSPORT", "transport retries exhausted")
               \/ /\ client_consecutive_timeouts' <= MAX_CONSECUTIVE_TIMEOUTS
                  /\ client_pc' = "for"
                  /\ client_domain_index' =
                        (client_domain_index + 1) % client_params.domain_count
                  /\ client_current_missing' = Tail(client_current_missing)]_vars
    /\ [][QueryJustAnswered => client_consecutive_timeouts' = 0]_vars
    /\ [](client_consecutive_timeouts > MAX_CONSECUTIVE_TIMEOUTS =>
            TransportAbort("transport retries exhausted"))
    /\ [](client_rounds > client_params.max_rounds =>
            TransportAbort("max rounds exhausted"))

\* the download gave up after MAX_CONSECUTIVE_TIMEOUTS + 1 failures in a
\* row that followed a stored slice
C40_Witness ==
    /\ TransportAbort("transport retries exhausted")
    /\ client_consecutive_timeouts = MAX_CONSECUTIVE_TIMEOUTS + 1
    /\ Len(client_accepted) >= 1
    /\ client_rounds >= 2

=============================================================================
